---- MODULE Spec2Model ----
(***************************************************************************)
(* Metric derivation and scoring engine of the cyber investing dashboard   *)
(* (quality.py, quality_cyber.py, export_latest.py, run_all.py).           *)
(*                                                                         *)
(* Numbers.  A float is one of                                             *)
(*   NaN        numpy's not-a-number ("undefined"),                        *)
(*   None       Python's None (a key that dict.get does not find),         *)
(*   Num(v)     a number, v an integer count of hundredths (0.15 is        *)
(*              Num(15), a rule-of-40 of 60 points is Num(60)); a derived  *)
(*              value that falls between two hundredths is floored.        *)
(* Money amounts in statements are plain integers.                         *)
(***************************************************************************)
EXTENDS Integers, Sequences, FiniteSets, TLC

VARIABLES cagr, ext, batch, qrec, crec, cyb, dash, win, inv

vars == <<cagr, ext, batch, qrec, crec, cyb, dash, win, inv>>

\* A variable of a part of the program that the specification at hand does not run.
Idle == [pc |-> "idle"]

----------------------------------------------------------------------------
(* Floats *)

NaN == [t |-> "nan"]
None == [t |-> "none"]
Num(v) == [t |-> "num", v |-> v]

IsNum(x) == x.t = "num"

\* np.isnan(x); the caller guards x against None where the source does.
isnan(x) == x.t = "nan"

\* Hundredths in one unit.
Hundred == 100

RECURSIVE Pow(_, _)
Pow(a, n) == IF n = 0 THEN 1 ELSE a * Pow(a, n - 1)

\* Natural numbers beyond the machine integers, as their digits to the base
\* Limb, lowest first and without leading zeros.
Limb == Hundred * Hundred

RECURSIVE BigOf(_)
BigOf(x) == IF x = 0 THEN <<>> ELSE <<x % Limb>> \o BigOf(x \div Limb)

\* b * a + carry, for a >= 1
RECURSIVE BigTimes(_, _, _)
BigTimes(b, a, carry) ==
    IF b = <<>> THEN BigOf(carry)
    ELSE <<(Head(b) * a + carry) % Limb>>
             \o BigTimes(Tail(b), a, (Head(b) * a + carry) \div Limb)

\* b * a^n
RECURSIVE BigTimesPow(_, _, _)
BigTimesPow(b, a, n) ==
    IF n = 0 THEN b
    ELSE IF a = 0 THEN <<>>
    ELSE BigTimesPow(BigTimes(b, a, 0), a, n - 1)

\* x <= y
RECURSIVE BigLeq(_, _)
BigLeq(x, y) ==
    IF Len(x) # Len(y) THEN Len(x) < Len(y)
    ELSE IF x = <<>> THEN TRUE
    ELSE IF x[Len(x)] # y[Len(y)] THEN x[Len(x)] < y[Len(y)]
    ELSE BigLeq(SubSeq(x, 1, Len(x) - 1), SubSeq(y, 1, Len(y) - 1))

\* (100 + r)/100 <= (e/s)^(1/n), for s > 0, e > 0, n >= 1, r >= -100.
RootAtLeast(r, e, s, n) ==
    BigLeq(BigTimesPow(BigOf(s), Hundred + r, n), BigTimesPow(BigOf(e), Hundred, n))

\* The largest r in lo..hi with RootAtLeast(r, e, s, n); it holds at lo and fails
\* above hi.
RECURSIVE RootBetween(_, _, _, _, _)
RootBetween(lo, hi, e, s, n) ==
    IF lo = hi THEN lo
    ELSE LET mid == (lo + hi + 1) \div 2
         IN  IF RootAtLeast(mid, e, s, n) THEN RootBetween(mid, hi, e, s, n)
             ELSE RootBetween(lo, mid - 1, e, s, n)

\* floor(100 * ((e/s)^(1/n) - 1)), for s > 0, e > 0, n >= 1.
RootMinusOne(e, s, n) == RootBetween(0 - Hundred, Hundred * e, e, s, n)

Return(v) == [kind |-> "return", value |-> v]
Raise(exc, msg) == [kind |-> "raise", exc |-> exc, msg |-> msg]

\* (end / start) ** (1 / years) - 1 on a numpy float start and end and a Python
\* int years: 1 / 0 raises, x / 0.0 is inf or nan, a negative base has no real root.
PowExpr(start, end, years) ==
    IF years = 0 THEN Raise("ZeroDivisionError", <<"division by zero">>)
    ELSE IF start = 0 THEN Return(IF end > 0 /\ years > 0 THEN [t |-> "inf"] ELSE NaN)
    ELSE IF (end < 0) # (start < 0) THEN Return(NaN)
    ELSE IF end = 0 THEN Return(IF years > 0 THEN Num(0 - Hundred) ELSE [t |-> "inf"])
    ELSE IF years > 0
         THEN Return(Num(RootMinusOne(IF end < 0 THEN 0 - end ELSE end,
                                      IF start < 0 THEN 0 - start ELSE start, years)))
         ELSE Return(Num(RootMinusOne(IF start < 0 THEN 0 - start ELSE start,
                                      IF end < 0 THEN 0 - end ELSE end, 0 - years)))

----------------------------------------------------------------------------
(* Safe CAGR *)

\* The guard on the bases dropped the case of a zero base.
safe_cagr_strict_guard(start, end, years) ==
    IF years <= 0 THEN Return(NaN)
    ELSE IF start < 0 \/ end < 0 THEN Return(NaN)
    ELSE PowExpr(start, end, years)

\* quality.py
safe_cagr(start, end, years) ==
    IF years <= 0 THEN Return(NaN)
    ELSE IF start <= 0 \/ end <= 0 THEN Return(NaN)
    ELSE PowExpr(start, end, years)

\* quality_cyber.py
cyber_safe_cagr(start, end, years) ==
    IF years <= 0 THEN Return(NaN)
    ELSE IF start <= 0 \/ end <= 0 THEN Return(NaN)
    ELSE PowExpr(start, end, years)

\* Bounds of the inputs of the safe CAGR.
MaxAmount == 4
MaxYears == 3

CagrAmounts == (0 - 1)..MaxAmount
CagrYears == (0 - 1)..MaxYears

CagrInit ==
    /\ cagr \in [pc : {"ready"}, start : CagrAmounts, end : CagrAmounts,
                 years : CagrYears, out : {Idle}, out_cyber : {Idle}]
    /\ ext = Idle /\ batch = Idle /\ qrec = Idle /\ crec = Idle /\ cyb = Idle /\ dash = Idle /\ win = Idle /\ inv = Idle

\* One call of each copy of _safe_cagr on the same arguments.
CallSafeCagr ==
    /\ cagr.pc = "ready"
    /\ cagr' = [cagr EXCEPT !.pc = "done",
                            !.out = safe_cagr(cagr.start, cagr.end, cagr.years),
                            !.out_cyber = cyber_safe_cagr(cagr.start, cagr.end, cagr.years)]
    /\ UNCHANGED <<ext, batch, qrec, crec, cyb, dash, win, inv>>

\* The caller hands over the next arguments.
NextCagrArgs ==
    /\ cagr.pc = "done"
    /\ \E s \in CagrAmounts, e \in CagrAmounts, y \in CagrYears :
           cagr' = [pc |-> "ready", start |-> s, end |-> e, years |-> y,
                    out |-> Idle, out_cyber |-> Idle]
    /\ UNCHANGED <<ext, batch, qrec, crec, cyb, dash, win, inv>>

CagrNext == CallSafeCagr \/ NextCagrArgs

SpecCagr == CagrInit /\ [][CagrNext]_vars

CagrGuard == cagr.years <= 0 \/ cagr.start <= 0 \/ cagr.end <= 0

\* The value is the floor, in hundredths, of (end/start)^(1/years) - 1.
IsCagrOf(out, start, end, years) ==
    /\ out.kind = "return"
    /\ IsNum(out.value)
    /\ Pow(Hundred + out.value.v, years) * start <= end * Pow(Hundred, years)
    /\ Pow(Hundred + out.value.v + 1, years) * start > end * Pow(Hundred, years)

\* C1: both copies of _safe_cagr return NaN, and do not raise, whenever
\* years <= 0 or start <= 0 or end <= 0; on every other input they return
\* (end/start)^(1/years) - 1.
C1_SafeCagrContract ==
    cagr.pc = "done" =>
        \A out \in {cagr.out, cagr.out_cyber} :
            IF CagrGuard THEN out = Return(NaN)
            ELSE IsCagrOf(out, cagr.start, cagr.end, cagr.years)

\* A call outside the guard that returned a positive growth rate over 2+ years.
C1_Witness ==
    /\ cagr.pc = "done"
    /\ ~CagrGuard
    /\ cagr.years >= 2
    /\ cagr.out = cagr.out_cyber
    /\ IsNum(cagr.out.value) /\ cagr.out.value.v > 0

----------------------------------------------------------------------------
(* Statement tables *)

\* A DataFrame: cols the column names, idx the row labels (period keys) in row
\* order, cell[c][k] the cell of column c at row k: NaN or Amt(a), a an integer
\* amount.
Amt(a) == [t |-> "amt", v |-> a]

Abs(a) == IF a < 0 THEN 0 - a ELSE a

RECURSIVE GCD(_, _)
GCD(a, b) == IF b = 0 THEN a ELSE GCD(b, a % b)

\* The exact quotient n/d of two integers, d # 0, in lowest terms.
Rat(n, d) ==
    LET g == GCD(Abs(n), Abs(d))
        sgn == IF d < 0 THEN 0 - 1 ELSE 1
    IN  [t |-> "rat", n |-> sgn * (n \div g), d |-> sgn * (d \div g)]

RatAdd(x, y) == Rat(x.n * y.d + y.n * x.d, x.d * y.d)
RatSub(x, y) == Rat(x.n * y.d - y.n * x.d, x.d * y.d)
RatMul(x, y) == Rat(x.n * y.n, x.d * y.d)

\* The float in hundredths, floored.
ToNum(x) == IF x = NaN THEN NaN ELSE Num((Hundred * x.n) \div x.d)

\* floor(100 * sqrt(x)) for a fraction x >= 0.
RECURSIVE SqrtFrom(_, _)
SqrtFrom(x, s) ==
    IF (s + 1) * (s + 1) * x.d <= Hundred * Hundred * x.n THEN SqrtFrom(x, s + 1) ELSE s

RECURSIVE SortedSeq(_)
SortedSeq(S) ==
    IF S = {} THEN <<>>
    ELSE LET lo == CHOOSE k \in S : \A j \in S : k <= j
         IN  <<lo>> \o SortedSeq(S \ {lo})

Range(seq) == {seq[i] : i \in 1..Len(seq)}

\* df.sort_index(): the rows by ascending label.
sort_index(df) == [df EXCEPT !.idx = SortedSeq(Range(df.idx))]

\* df[col]: the Series of a column, as the sequence of its (label, value) entries.
column(df, col) ==
    [i \in 1..Len(df.idx) |-> [k |-> df.idx[i], v |-> df.cell[col][df.idx[i]]]]

\* df.loc[index, col]
loc(df, index, col) == [i \in 1..Len(index) |-> [k |-> index[i], v |-> df.cell[col][index[i]]]]

IsPresent(e) == e.v # NaN
dropna(series) == SelectSeq(series, IsPresent)

tail(series, n) ==
    IF Len(series) <= n THEN series ELSE SubSeq(series, Len(series) - n + 1, Len(series))

\* series.replace(0, np.nan)
replace_zero_nan(series) ==
    [i \in 1..Len(series) |-> IF series[i].v = Amt(0) THEN [series[i] EXCEPT !.v = NaN]
                              ELSE series[i]]

\* a / b on two Series with the same labels, b free of zeros: NaN where either
\* side is NaN.
series_div(a, b) ==
    [i \in 1..Len(a) |->
        [k |-> a[i].k,
         v |-> IF a[i].v = NaN \/ b[i].v = NaN THEN NaN ELSE Rat(a[i].v.v, b[i].v.v)]]

RECURSIVE RatSum(_)
RatSum(series) ==
    IF series = <<>> THEN Rat(0, 1) ELSE RatAdd(Head(series).v, RatSum(Tail(series)))

RECURSIVE RatSumSq(_)
RatSumSq(series) ==
    IF series = <<>> THEN Rat(0, 1)
    ELSE RatAdd(RatMul(Head(series).v, Head(series).v), RatSumSq(Tail(series)))

\* series.mean(): NaN entries are skipped; NaN when nothing is left.
mean(series) ==
    LET xs == dropna(series)
    IN  IF Len(xs) = 0 THEN NaN ELSE ToNum(RatMul(RatSum(xs), Rat(1, Len(xs))))

\* series.std(): the sample standard deviation (ddof = 1) of the entries that are
\* not NaN; NaN when fewer than two are left.
std(series) ==
    LET xs == dropna(series)
        n == Len(xs)
        sum == RatSum(xs)
        var == RatMul(RatSub(RatMul(Rat(n, 1), RatSumSq(xs)), RatMul(sum, sum)),
                      Rat(1, n * (n - 1)))
    IN  IF n < 2 THEN NaN ELSE Num(SqrtFrom(var, 0))

\* index.intersection(other): the labels of both, ascending.
intersection(index, other) == SortedSeq(Range(index) \cap Range(other))

----------------------------------------------------------------------------
(* Universal quality metrics: quality.py, compute_quality_metrics *)

\* The message names the column alone.
MissingColumn_without_symbol(col, symbol) ==
    Raise("ValueError", <<"Missing column '", col, "' in Yahoo income statement">>)

MissingColumn(col, symbol) ==
    Raise("ValueError",
          <<"Missing column '", col, "' in Yahoo income statement for ", symbol>>)

\* 1) "ROIC" proxy: Return on Equity, 5-year avg
roic_5y_avg(income, balance) ==
    IF "Net Income" \in income.cols /\ "Total Stockholder Equity" \in balance.cols
    THEN LET common_index == intersection(income.idx, balance.idx)
             net_income == loc(income, common_index, "Net Income")
             equity == loc(balance, common_index, "Total Stockholder Equity")
             roe_series == series_div(net_income, replace_zero_nan(equity))
         IN  mean(tail(roe_series, 5))
    ELSE NaN

\* 2) Operating margin stability (std dev over last 5 years)
op_margin_std(income) ==
    LET op_margin == series_div(column(income, "Operating Income"),
                                replace_zero_nan(column(income, "Total Revenue")))
        op_margin_5y == tail(op_margin, 5)
    IN  std(op_margin_5y)

\* Revenue CAGR from the first to the last period of the whole series.
rev_cagr_whole_series(income) ==
    LET rev_series == dropna(column(income, "Total Revenue"))
    IN  IF Len(rev_series) >= 2
        THEN safe_cagr(rev_series[1].v.v, rev_series[Len(rev_series)].v.v,
                       Len(rev_series) - 1)
        ELSE Return(NaN)

\* 3) Revenue CAGR (5-year); the result of _safe_cagr, or NaN.
rev_cagr_5y(income) ==
    LET rev_series == dropna(column(income, "Total Revenue"))
        rev_6 == tail(rev_series, 6)
    IN  IF Len(rev_6) >= 2
        THEN safe_cagr(rev_6[1].v.v, rev_6[Len(rev_6)].v.v, Len(rev_6) - 1)
        ELSE Return(NaN)

\* 4) EPS CAGR (5-year)
eps_col(income) ==
    IF "Diluted EPS" \in income.cols THEN "Diluted EPS"
    ELSE IF "Basic EPS" \in income.cols THEN "Basic EPS"
    ELSE "None"

eps_cagr_5y(income) ==
    IF eps_col(income) # "None"
    THEN LET eps_series == dropna(column(income, eps_col(income)))
             eps_6 == tail(eps_series, 6)
         IN  IF Len(eps_6) >= 2
             THEN safe_cagr(eps_6[1].v.v, eps_6[Len(eps_6)].v.v, Len(eps_6) - 1)
             ELSE Return(NaN)
    ELSE Return(NaN)

\* 5) Debt-to-equity (latest year).  balance.iloc[-1] raises IndexError on a
\* table without rows.  A NaN equity is not the object np.nan and is not equal to
\* it, so it passes the test and the division gives NaN.
debt_to_equity(balance) ==
    IF "Total Liab" \in balance.cols /\ "Total Stockholder Equity" \in balance.cols
    THEN IF Len(balance.idx) = 0
         THEN Raise("IndexError", <<"single positional indexer is out-of-bounds">>)
         ELSE LET latest == balance.idx[Len(balance.idx)]
                  total_debt == balance.cell["Total Liab"][latest]
                  total_equity == balance.cell["Total Stockholder Equity"][latest]
              IN  IF total_equity # Amt(0)
                  THEN Return(IF total_debt = NaN \/ total_equity = NaN THEN NaN
                              ELSE ToNum(Rat(total_debt.v, total_equity.v)))
                  ELSE Return(NaN)
    ELSE Return(NaN)

\* The first exception raised by a sequence of results, or NoRaise.
NoRaise == [kind |-> "none"]

RECURSIVE FirstRaise(_)
FirstRaise(results) ==
    IF results = <<>> THEN NoRaise
    ELSE IF Head(results).kind = "raise" THEN Head(results)
    ELSE FirstRaise(Tail(results))

\* The body after the required-columns check, on the sorted tables.
quality_metrics_body(income, balance) ==
    LET roic == roic_5y_avg(income, balance)
        op_std == op_margin_std(income)
        rev == rev_cagr_5y(income)
        eps == eps_cagr_5y(income)
        dte == debt_to_equity(balance)
        raised == FirstRaise(<<rev, eps, dte>>)
    IN  IF raised # NoRaise THEN raised
        ELSE Return([roic_5y_avg |-> roic,
                     op_margin_std_5y |-> op_std,
                     rev_cagr_5y |-> rev.value,
                     eps_cagr_5y |-> eps.value,
                     debt_to_equity |-> dte.value])

\* compute_quality_metrics(symbol), data being what get_yahoo_financials(symbol)
\* returned.
compute_quality_metrics(symbol, data) ==
    LET income == sort_index(data.income)
        balance == sort_index(data.balance)
    IN  IF "Total Revenue" \notin income.cols THEN MissingColumn("Total Revenue", symbol)
        ELSE IF "Operating Income" \notin income.cols
             THEN MissingColumn("Operating Income", symbol)
        ELSE quality_metrics_body(income, balance)

----------------------------------------------------------------------------
(* Universal quality scorer: quality.py, score_quality *)

QualityKeys == {"roic_5y_avg", "op_margin_std_5y", "rev_cagr_5y", "eps_cagr_5y",
                "debt_to_equity"}

\* metrics.get(key): None when the key is absent (or holds None).
get(metrics, key) == IF key \in DOMAIN metrics THEN metrics[key] ELSE None

\* round(100 * score / max_score): Python 3 rounds a half to the even neighbour.
PyRound(num, den) ==
    LET q == num \div den
        r == num % den
    IN  IF 2 * r < den THEN q
        ELSE IF 2 * r > den THEN q + 1
        ELSE IF q % 2 = 0 THEN q ELSE q + 1

\* ROIC/ROE proxy (30 pts)
roic_points(metrics) ==
    LET roic == get(metrics, "roic_5y_avg")
    IN  IF roic # None /\ ~isnan(roic)
        THEN IF roic.v >= 20 THEN 30
             ELSE IF roic.v >= 15 THEN 25
             ELSE IF roic.v >= 10 THEN 15
             ELSE IF roic.v >= 5 THEN 5
             ELSE 0
        ELSE 0

\* Margin stability (20 pts, lower std = better)
op_std_points(metrics) ==
    LET op_std == get(metrics, "op_margin_std_5y")
    IN  IF op_std # None /\ ~isnan(op_std)
        THEN IF op_std.v <= 2 THEN 20
             ELSE IF op_std.v <= 5 THEN 15
             ELSE IF op_std.v <= 8 THEN 8
             ELSE IF op_std.v <= 12 THEN 3
             ELSE 0
        ELSE 0

\* Revenue CAGR (15 pts)
rev_cagr_points(metrics) ==
    LET rev_cagr == get(metrics, "rev_cagr_5y")
    IN  IF rev_cagr # None /\ ~isnan(rev_cagr)
        THEN IF rev_cagr.v >= 15 THEN 15
             ELSE IF rev_cagr.v >= 10 THEN 12
             ELSE IF rev_cagr.v >= 5 THEN 7
             ELSE IF rev_cagr.v >= 2 THEN 3
             ELSE 0
        ELSE 0

\* EPS CAGR (15 pts)
eps_cagr_points(metrics) ==
    LET eps_cagr == get(metrics, "eps_cagr_5y")
    IN  IF eps_cagr # None /\ ~isnan(eps_cagr)
        THEN IF eps_cagr.v >= 15 THEN 15
             ELSE IF eps_cagr.v >= 10 THEN 12
             ELSE IF eps_cagr.v >= 5 THEN 7
             ELSE IF eps_cagr.v >= 2 THEN 3
             ELSE 0
        ELSE 0

\* Debt-to-equity (20 pts, lower = better)
dte_points(metrics) ==
    LET dte == get(metrics, "debt_to_equity")
    IN  IF dte # None /\ ~isnan(dte)
        THEN IF dte.v <= 50 THEN 20
             ELSE IF dte.v <= 100 THEN 15
             ELSE IF dte.v <= 150 THEN 8
             ELSE IF dte.v <= 200 THEN 3
             ELSE 0
        ELSE 0

\* score, after the five blocks
quality_points(metrics) ==
    roic_points(metrics) + op_std_points(metrics) + rev_cagr_points(metrics)
        + eps_cagr_points(metrics) + dte_points(metrics)

\* A metric without a value adds nothing to max_score either.
quality_max_score_present_only(metrics) ==
    (IF IsNum(get(metrics, "roic_5y_avg")) THEN 30 ELSE 0)
        + (IF IsNum(get(metrics, "op_margin_std_5y")) THEN 20 ELSE 0)
        + (IF IsNum(get(metrics, "rev_cagr_5y")) THEN 15 ELSE 0)
        + (IF IsNum(get(metrics, "eps_cagr_5y")) THEN 15 ELSE 0)
        + (IF IsNum(get(metrics, "debt_to_equity")) THEN 20 ELSE 0)

\* max_score, after the five blocks: each block adds its weight before it looks
\* at the metric.
quality_max_score(metrics) == 30 + 20 + 15 + 15 + 20

\* The revenue-CAGR block reads its second tier at 0.12 instead of 0.10.
score_quality_shifted_tier(metrics) ==
    LET rev == get(metrics, "rev_cagr_5y")
        shifted == IF IsNum(rev) /\ rev.v >= 10 /\ rev.v < 12 THEN 7 - 12 ELSE 0
        score == quality_points(metrics) + shifted
        max_score == quality_max_score(metrics)
    IN  [metrics |-> metrics,
         quality_score |-> IF max_score > 0 THEN Num(PyRound(100 * score, max_score))
                           ELSE NaN]

\* The top ROIC tier pays 35 points while max_score counts 30 for the block.
score_quality_overweight_tier(metrics) ==
    LET roic == get(metrics, "roic_5y_avg")
        extra == IF IsNum(roic) /\ roic.v >= 20 THEN 5 ELSE 0
        score == quality_points(metrics) + extra
        max_score == quality_max_score(metrics)
    IN  [metrics |-> metrics,
         quality_score |-> IF max_score > 0 THEN Num(PyRound(100 * score, max_score))
                           ELSE NaN]

\* {**metrics, "quality_score": quality_score}
score_quality(metrics) ==
    LET score == quality_points(metrics)
        max_score == quality_max_score(metrics)
    IN  [metrics |-> metrics,
         quality_score |-> IF max_score > 0 THEN Num(PyRound(100 * score, max_score))
                           ELSE NaN]

\* The values tried for the metric in focus: no value, NaN, and both sides of
\* every tier threshold.
QualityProbes(key) ==
    {None, NaN} \cup
    {Num(v) : v \in
        CASE key = "roic_5y_avg" -> {4, 5, 9, 10, 14, 15, 19, 20}
          [] key = "op_margin_std_5y" -> {2, 3, 5, 6, 8, 9, 12, 13}
          [] key = "debt_to_equity" -> {50, 51, 100, 101, 150, 151, 200, 201}
          [] OTHER -> {1, 2, 4, 5, 9, 10, 14, 15}}

\* The values tried for the other metrics: no value, NaN, one value of the best
\* tier and one of the worst.
QualityCoarse(key) ==
    {None, NaN} \cup
    {Num(v) : v \in
        CASE key = "roic_5y_avg" -> {4, 20}
          [] key = "op_margin_std_5y" -> {2, 13}
          [] key = "debt_to_equity" -> {50, 201}
          [] OTHER -> {1, 15}}

QualityValues(focus, key) ==
    IF key = focus THEN QualityProbes(key) ELSE QualityCoarse(key)

QualityRecords ==
    UNION {[roic_5y_avg : QualityValues(f, "roic_5y_avg"),
            op_margin_std_5y : QualityValues(f, "op_margin_std_5y"),
            rev_cagr_5y : QualityValues(f, "rev_cagr_5y"),
            eps_cagr_5y : QualityValues(f, "eps_cagr_5y"),
            debt_to_equity : QualityValues(f, "debt_to_equity")] : f \in QualityKeys}

----------------------------------------------------------------------------
(* Cyber style scorer: quality_cyber.py, score_cyber_styles *)

\* metrics.get(key, np.nan)
get_or_nan(metrics, key) ==
    IF key \in DOMAIN metrics /\ metrics[key] # None THEN metrics[key] ELSE NaN

\* ---- Growth heavy score ----
\* Rule of 40 (40 points)
g_r40_points(r40) ==
    IF ~isnan(r40)
    THEN IF r40.v >= 60 THEN 40
         ELSE IF r40.v >= 50 THEN 32
         ELSE IF r40.v >= 40 THEN 24
         ELSE IF r40.v >= 30 THEN 16
         ELSE IF r40.v >= 20 THEN 8
         ELSE 0
    ELSE 0

\* The third ARR tier starts at 0.15 instead of 0.18.
g_arr_points_low_tier(arr) ==
    IF ~isnan(arr)
    THEN IF arr.v >= 35 THEN 40
         ELSE IF arr.v >= 25 THEN 32
         ELSE IF arr.v >= 15 THEN 24
         ELSE IF arr.v >= 12 THEN 16
         ELSE IF arr.v >= 8 THEN 8
         ELSE 0
    ELSE 0

\* ARR growth (40 points)
g_arr_points(arr) ==
    IF ~isnan(arr)
    THEN IF arr.v >= 35 THEN 40
         ELSE IF arr.v >= 25 THEN 32
         ELSE IF arr.v >= 18 THEN 24
         ELSE IF arr.v >= 12 THEN 16
         ELSE IF arr.v >= 8 THEN 8
         ELSE 0
    ELSE 0

\* Gross margin level sanity (20 points)
g_gm_points(gm) ==
    IF ~isnan(gm)
    THEN IF gm.v >= 80 THEN 20
         ELSE IF gm.v >= 75 THEN 16
         ELSE IF gm.v >= 70 THEN 12
         ELSE IF gm.v >= 65 THEN 8
         ELSE 0
    ELSE 0

g_score(r40, arr, gm) == g_r40_points(r40) + g_arr_points(arr) + g_gm_points(gm)

\* g_max: each block adds its weight before it looks at the metric.
g_max(r40, arr, gm) == 40 + 40 + 20

\* ---- Profitability heavy score ----
\* FCF margin (40 points)
p_fcf_points(fcf_m) ==
    IF ~isnan(fcf_m)
    THEN IF fcf_m.v >= 30 THEN 40
         ELSE IF fcf_m.v >= 20 THEN 32
         ELSE IF fcf_m.v >= 15 THEN 24
         ELSE IF fcf_m.v >= 10 THEN 16
         ELSE IF fcf_m.v >= 5 THEN 8
         ELSE 0
    ELSE 0

\* Gross margin (30 points)
p_gm_points(gm) ==
    IF ~isnan(gm)
    THEN IF gm.v >= 80 THEN 30
         ELSE IF gm.v >= 75 THEN 24
         ELSE IF gm.v >= 70 THEN 18
         ELSE IF gm.v >= 65 THEN 12
         ELSE 0
    ELSE 0

\* S and M efficiency (15 points) lower is better
p_sga_points(sga) ==
    IF ~isnan(sga)
    THEN IF sga.v <= 30 THEN 15
         ELSE IF sga.v <= 40 THEN 12
         ELSE IF sga.v <= 50 THEN 9
         ELSE IF sga.v <= 60 THEN 6
         ELSE 0
    ELSE 0

\* The band decays on the low side only: above 0.20 nothing is scored.
p_rd_points_one_sided(rd) ==
    IF ~isnan(rd)
    THEN IF 10 <= rd.v /\ rd.v <= 20 THEN 15
         ELSE IF 8 <= rd.v /\ rd.v < 10 THEN 12
         ELSE IF 5 <= rd.v /\ rd.v < 8 THEN 9
         ELSE 0
    ELSE 0

\* R and D efficiency (15 points) like 10 to 20 percent best
p_rd_points(rd) ==
    IF ~isnan(rd)
    THEN IF 10 <= rd.v /\ rd.v <= 20 THEN 15
         ELSE IF (8 <= rd.v /\ rd.v < 10) \/ (20 < rd.v /\ rd.v <= 25) THEN 12
         ELSE IF (5 <= rd.v /\ rd.v < 8) \/ (25 < rd.v /\ rd.v <= 30) THEN 9
         ELSE 0
    ELSE 0

p_score(fcf_m, gm, sga, rd) ==
    p_fcf_points(fcf_m) + p_gm_points(gm) + p_sga_points(sga) + p_rd_points(rd)

p_max(fcf_m, gm, sga, rd) == 40 + 30 + 15 + 15

\* ---- Balanced score ----
\* Growth component (35 points): Rule of 40 (20) and ARR (15)
b_r40_points(r40) ==
    IF ~isnan(r40)
    THEN IF r40.v >= 60 THEN 20
         ELSE IF r40.v >= 50 THEN 16
         ELSE IF r40.v >= 40 THEN 12
         ELSE IF r40.v >= 30 THEN 8
         ELSE 0
    ELSE 0

b_arr_points(arr) ==
    IF ~isnan(arr)
    THEN IF arr.v >= 30 THEN 15
         ELSE IF arr.v >= 20 THEN 12
         ELSE IF arr.v >= 12 THEN 9
         ELSE IF arr.v >= 8 THEN 6
         ELSE 0
    ELSE 0

\* growth_component_max counting only the blocks whose metric is defined.
growth_component_max_of_defined(r40, arr) ==
    (IF ~isnan(r40) THEN 20 ELSE 0) + (IF ~isnan(arr) THEN 15 ELSE 0)

growth_component(r40, arr) == b_r40_points(r40) + b_arr_points(arr)
growth_component_max(r40, arr) == 20 + 15

\* Profitability component (35 points): FCF (20) and GM (15)
\* (first, the block with the points of its third tier typed 21 for 12)
b_fcf_points_digits_swapped(fcf_m) ==
    IF ~isnan(fcf_m)
    THEN IF fcf_m.v >= 25 THEN 20
         ELSE IF fcf_m.v >= 18 THEN 16
         ELSE IF fcf_m.v >= 12 THEN 21
         ELSE IF fcf_m.v >= 7 THEN 8
         ELSE 0
    ELSE 0

b_fcf_points(fcf_m) ==
    IF ~isnan(fcf_m)
    THEN IF fcf_m.v >= 25 THEN 20
         ELSE IF fcf_m.v >= 18 THEN 16
         ELSE IF fcf_m.v >= 12 THEN 12
         ELSE IF fcf_m.v >= 7 THEN 8
         ELSE 0
    ELSE 0

b_gm_points(gm) ==
    IF ~isnan(gm)
    THEN IF gm.v >= 78 THEN 15
         ELSE IF gm.v >= 73 THEN 12
         ELSE IF gm.v >= 68 THEN 9
         ELSE IF gm.v >= 63 THEN 6
         ELSE 0
    ELSE 0

prof_component(fcf_m, gm) == b_fcf_points(fcf_m) + b_gm_points(gm)
prof_component_max(fcf_m, gm) == 20 + 15

\* Efficiency component (30 points) SGA, RD, GM trend
b_sga_points(sga) ==
    IF ~isnan(sga)
    THEN IF sga.v <= 35 THEN 10
         ELSE IF sga.v <= 45 THEN 8
         ELSE IF sga.v <= 55 THEN 6
         ELSE 0
    ELSE 0

b_rd_points(rd) ==
    IF ~isnan(rd)
    THEN IF 10 <= rd.v /\ rd.v <= 20 THEN 10
         ELSE IF (8 <= rd.v /\ rd.v < 10) \/ (20 < rd.v /\ rd.v <= 25) THEN 8
         ELSE IF (5 <= rd.v /\ rd.v < 8) \/ (25 < rd.v /\ rd.v <= 30) THEN 6
         ELSE 0
    ELSE 0

b_gm_tr_points(gm_tr) ==
    IF ~isnan(gm_tr)
    THEN IF gm_tr.v >= 3 THEN 10
         ELSE IF gm_tr.v >= 2 THEN 8
         ELSE IF gm_tr.v >= 1 THEN 6
         ELSE 0
    ELSE 0

eff_component(sga, rd, gm_tr) ==
    b_sga_points(sga) + b_rd_points(rd) + b_gm_tr_points(gm_tr)
eff_component_max(sga, rd, gm_tr) == 10 + 10 + 10

b_max == 35 + 35 + 30

\* b_score as the fraction num/den: 35 * (growth_component / growth_component_max)
\* + 35 * (prof_component / prof_component_max) + 30 * (eff_component /
\* eff_component_max), a component being skipped when its maximum is 0.
b_score(m) ==
    LET gc == growth_component(m.r40, m.arr)
        gcm == growth_component_max(m.r40, m.arr)
        pc == prof_component(m.fcf_m, m.gm)
        pcm == prof_component_max(m.fcf_m, m.gm)
        ec == eff_component(m.sga, m.rd, m.gm_tr)
        ecm == eff_component_max(m.sga, m.rd, m.gm_tr)
        dg == IF gcm > 0 THEN gcm ELSE 1
        dp == IF pcm > 0 THEN pcm ELSE 1
        de == IF ecm > 0 THEN ecm ELSE 1
    IN  [num |-> (IF gcm > 0 THEN 35 * gc * dp * de ELSE 0)
                 + (IF pcm > 0 THEN 35 * pc * dg * de ELSE 0)
                 + (IF ecm > 0 THEN 30 * ec * dg * dp ELSE 0),
         den |-> dg * dp * de]

\* The local variables read at the top of score_cyber_styles.
cyber_locals(metrics) ==
    [arr |-> get_or_nan(metrics, "arr_growth"),
     gm |-> get_or_nan(metrics, "gross_margin_avg"),
     gm_tr |-> get_or_nan(metrics, "gross_margin_trend"),
     fcf_m |-> get_or_nan(metrics, "fcf_margin"),
     r40 |-> get_or_nan(metrics, "rule_of_40"),
     sga |-> get_or_nan(metrics, "sga_eff"),
     rd |-> get_or_nan(metrics, "rd_eff")]

growth_score(m) ==
    IF g_max(m.r40, m.arr, m.gm) > 0
    THEN Num(PyRound(100 * g_score(m.r40, m.arr, m.gm), g_max(m.r40, m.arr, m.gm)))
    ELSE NaN

profitability_score(m) ==
    IF p_max(m.fcf_m, m.gm, m.sga, m.rd) > 0
    THEN Num(PyRound(100 * p_score(m.fcf_m, m.gm, m.sga, m.rd),
                     p_max(m.fcf_m, m.gm, m.sga, m.rd)))
    ELSE NaN

balanced_score(m) ==
    IF b_max > 0
    THEN Num(PyRound(100 * b_score(m).num, b_score(m).den * b_max))
    ELSE NaN

\* {**metrics, "growth_score": ..., "profitability_score": ..., "balanced_score": ...}
score_cyber_styles(metrics) ==
    LET m == cyber_locals(metrics)
    IN  [metrics |-> metrics,
         growth_score |-> growth_score(m),
         profitability_score |-> profitability_score(m),
         balanced_score |-> balanced_score(m)]

CyberKeys == {"arr_growth", "gross_margin_avg", "gross_margin_trend", "fcf_margin",
              "rule_of_40", "sga_eff", "rd_eff"}

Nums(S) == {Num(v) : v \in S}

\* The values tried for the metric in focus: no value, NaN, and both sides of
\* every tier threshold of the three scores.
CyberProbes(key) ==
    {None, NaN} \cup
    Nums(CASE key = "rule_of_40" -> {19, 20, 29, 30, 39, 40, 49, 50, 59, 60, 65}
           [] key = "arr_growth" ->
                {7, 8, 11, 12, 17, 18, 19, 20, 24, 25, 29, 30, 34, 35, 40}
           [] key = "gross_margin_avg" ->
                {62, 63, 64, 65, 67, 68, 69, 70, 72, 73, 74, 75, 77, 78, 79, 80, 82}
           [] key = "fcf_margin" ->
                {4, 5, 6, 7, 9, 10, 11, 12, 14, 15, 17, 18, 19, 20, 24, 25, 29, 30}
           [] key = "sga_eff" ->
                {30, 31, 35, 36, 40, 41, 45, 46, 50, 51, 55, 56, 60, 61}
           [] key = "rd_eff" -> {4, 5, 7, 8, 9, 10, 15, 20, 21, 25, 26, 30, 31}
           [] OTHER -> {0, 1, 2, 3})

\* The values tried for the other metrics: NaN and one value that is in the best
\* tier of every score.
CyberCoarse(key) ==
    {NaN} \cup
    Nums(CASE key = "rule_of_40" -> {65}
           [] key = "arr_growth" -> {40}
           [] key = "gross_margin_avg" -> {82}
           [] key = "fcf_margin" -> {30}
           [] key = "sga_eff" -> {30}
           [] key = "rd_eff" -> {15}
           [] OTHER -> {3})

CyberValues(focus, key) == IF key = focus THEN CyberProbes(key) ELSE CyberCoarse(key)

\* A record that holds nothing but the three growth metrics.
GrowthOnlyRecords ==
    [arr_growth : CyberProbes("arr_growth"),
     gross_margin_avg : Nums({79, 80, 82}),
     gross_margin_trend : {None},
     fcf_margin : {None},
     rule_of_40 : Nums({59, 60, 65}),
     sga_eff : {None},
     rd_eff : {None}]

CyberRecords ==
    GrowthOnlyRecords \cup
    UNION {[arr_growth : CyberValues(f, "arr_growth"),
            gross_margin_avg : CyberValues(f, "gross_margin_avg"),
            gross_margin_trend : CyberValues(f, "gross_margin_trend"),
            fcf_margin : CyberValues(f, "fcf_margin"),
            rule_of_40 : CyberValues(f, "rule_of_40"),
            sga_eff : CyberValues(f, "sga_eff"),
            rd_eff : CyberValues(f, "rd_eff")] : f \in CyberKeys}

----------------------------------------------------------------------------
(* The scorers run on metrics records *)

ScoresInit ==
    /\ cagr = Idle /\ ext = Idle /\ batch = Idle /\ cyb = Idle /\ dash = Idle /\ win = Idle /\ inv = Idle
    /\ \/ /\ qrec \in [pc : {"ready"}, metrics : QualityRecords, out : {Idle},
                       prev : {Idle}]
          /\ crec = Idle
       \/ /\ qrec = Idle
          /\ crec \in [pc : {"ready"}, metrics : CyberRecords, out : {Idle},
                       prev : {Idle}]

\* score_quality(metrics)
ScoreQuality ==
    /\ qrec.pc = "ready"
    /\ qrec' = [qrec EXCEPT !.pc = "scored", !.out = score_quality(qrec.metrics)]
    /\ UNCHANGED <<cagr, ext, batch, crec, cyb, dash, win, inv>>

\* score_quality on the record with the value of one metric changed, the others
\* as they were; prev keeps the first record and its result.
RescoreQuality ==
    /\ qrec.pc = "scored"
    /\ \E k \in QualityKeys :
         /\ IsNum(qrec.metrics[k])
         /\ \E x \in QualityProbes(k) :
              /\ IsNum(x) /\ x # qrec.metrics[k]
              /\ LET m == [qrec.metrics EXCEPT ![k] = x]
                 IN  /\ m \in QualityRecords
                     /\ qrec' = [pc |-> "rescored", metrics |-> m,
                                 out |-> score_quality(m),
                                 prev |-> [metrics |-> qrec.metrics, out |-> qrec.out]]
    /\ UNCHANGED <<cagr, ext, batch, crec, cyb, dash, win, inv>>

\* score_cyber_styles(metrics)
ScoreCyberStyles ==
    /\ crec.pc = "ready"
    /\ crec' = [crec EXCEPT !.pc = "scored", !.out = score_cyber_styles(crec.metrics)]
    /\ UNCHANGED <<cagr, ext, batch, qrec, cyb, dash, win, inv>>

\* score_cyber_styles on the record with the value of one metric changed, the
\* others as they were; prev keeps the first record and its result.
RescoreCyberStyles ==
    /\ crec.pc = "scored"
    /\ \E k \in CyberKeys :
         /\ IsNum(crec.metrics[k])
         /\ \E x \in CyberProbes(k) :
              /\ IsNum(x) /\ x # crec.metrics[k]
              /\ LET m == [crec.metrics EXCEPT ![k] = x]
                 IN  /\ m \in CyberRecords
                     /\ crec' = [pc |-> "rescored", metrics |-> m,
                                 out |-> score_cyber_styles(m),
                                 prev |-> [metrics |-> crec.metrics, out |-> crec.out]]
    /\ UNCHANGED <<cagr, ext, batch, qrec, cyb, dash, win, inv>>

ScoresNext == ScoreQuality \/ RescoreQuality \/ ScoreCyberStyles \/ RescoreCyberStyles

SpecScores == ScoresInit /\ [][ScoresNext]_vars

QualityScored == qrec.pc \in {"scored", "rescored"}
CyberScored == crec.pc \in {"scored", "rescored"}

\* A score is an integer of 0..100, or NaN with nothing achievable.
ScoreInRange(score, achievable) ==
    \/ IsNum(score) /\ score.v \in 0..100
    \/ score = NaN /\ achievable = 0

\* C5: every score of score_quality and score_cyber_styles is an integer in
\* 0..100 or undefined, and undefined only when the achievable total is zero.
C5_ScoresInRange ==
    /\ QualityScored =>
         ScoreInRange(qrec.out.quality_score, quality_max_score(qrec.metrics))
    /\ CyberScored =>
         LET m == cyber_locals(crec.metrics)
         IN  /\ ScoreInRange(crec.out.growth_score, g_max(m.r40, m.arr, m.gm))
             /\ ScoreInRange(crec.out.profitability_score,
                             p_max(m.fcf_m, m.gm, m.sga, m.rd))
             /\ ScoreInRange(crec.out.balanced_score, b_max)

\* A cyber record with undefined metrics whose three scores lie strictly inside
\* 0..100.
C5_Witness ==
    /\ crec.pc = "scored"
    /\ \E k \in CyberKeys : crec.metrics[k] = NaN
    /\ \A s \in {crec.out.growth_score, crec.out.profitability_score,
                 crec.out.balanced_score} : IsNum(s) /\ s.v > 0 /\ s.v < 100

\* Points of a number x by a table of <<threshold, points>> rows read top down:
\* the first row whose threshold x reaches (AtLeast) or stays within (AtMost).
RECURSIVE TierAtLeast(_, _)
TierAtLeast(x, table) ==
    IF table = <<>> THEN 0
    ELSE IF x >= Head(table)[1] THEN Head(table)[2]
    ELSE TierAtLeast(x, Tail(table))

RECURSIVE TierAtMost(_, _)
TierAtMost(x, table) ==
    IF table = <<>> THEN 0
    ELSE IF x <= Head(table)[1] THEN Head(table)[2]
    ELSE TierAtMost(x, Tail(table))

\* The tier tables of the universal scorer as the claim states them.
Stated_quality_points(m) ==
    (IF IsNum(m.roic_5y_avg)
     THEN TierAtLeast(m.roic_5y_avg.v, <<<<20, 30>>, <<15, 25>>, <<10, 15>>, <<5, 5>>>>)
     ELSE 0)
    + (IF IsNum(m.op_margin_std_5y)
       THEN TierAtMost(m.op_margin_std_5y.v, <<<<2, 20>>, <<5, 15>>, <<8, 8>>, <<12, 3>>>>)
       ELSE 0)
    + (IF IsNum(m.rev_cagr_5y)
       THEN TierAtLeast(m.rev_cagr_5y.v, <<<<15, 15>>, <<10, 12>>, <<5, 7>>, <<2, 3>>>>)
       ELSE 0)
    + (IF IsNum(m.eps_cagr_5y)
       THEN TierAtLeast(m.eps_cagr_5y.v, <<<<15, 15>>, <<10, 12>>, <<5, 7>>, <<2, 3>>>>)
       ELSE 0)
    + (IF IsNum(m.debt_to_equity)
       THEN TierAtMost(m.debt_to_equity.v,
                       <<<<50, 20>>, <<100, 15>>, <<150, 8>>, <<200, 3>>>>)
       ELSE 0)

QualityAllBest(m) ==
    /\ IsNum(m.roic_5y_avg) /\ m.roic_5y_avg.v >= 20
    /\ IsNum(m.op_margin_std_5y) /\ m.op_margin_std_5y.v <= 2
    /\ IsNum(m.rev_cagr_5y) /\ m.rev_cagr_5y.v >= 15
    /\ IsNum(m.eps_cagr_5y) /\ m.eps_cagr_5y.v >= 15
    /\ IsNum(m.debt_to_equity) /\ m.debt_to_equity.v <= 50

\* C8: score_quality sums the points of the five fixed tier tables (ROIC
\* 30/25/15/5, margin std 20/15/8/3, the two CAGRs 15/12/7/3, debt/equity
\* 20/15/8/3, otherwise 0), quality_score is round(100 * achieved / achievable),
\* and a record with all five metrics in the best tier scores 100.
C8_QualityTierTables ==
    QualityScored =>
        /\ qrec.out.quality_score =
               Num(PyRound(100 * Stated_quality_points(qrec.metrics),
                           quality_max_score(qrec.metrics)))
        /\ QualityAllBest(qrec.metrics) => qrec.out.quality_score = Num(100)

\* A record with all five metrics in the best tier, scored 100.
C8_Witness ==
    /\ qrec.pc = "scored"
    /\ QualityAllBest(qrec.metrics)
    /\ qrec.out.quality_score = Num(100)

\* A value of the 0-point tier of each universal metric.
QualityWorst(key) ==
    CASE key = "roic_5y_avg" -> Num(4)
      [] key = "op_margin_std_5y" -> Num(13)
      [] key = "debt_to_equity" -> Num(201)
      [] OTHER -> Num(1)

\* C9: the achievable total of score_quality is 100 whether or not a metric is
\* present: an undefined or absent metric gives the same quality_score as the same
\* record with that metric in its 0-point tier, and a record with all five
\* metrics undefined scores 0, not undefined.
C9_QualityFullDenominator ==
    QualityScored =>
        /\ quality_max_score(qrec.metrics) = 100
        /\ \A k \in QualityKeys :
               ~IsNum(qrec.metrics[k]) =>
                   qrec.out.quality_score =
                       score_quality([qrec.metrics EXCEPT ![k] = QualityWorst(k)])
                           .quality_score
        /\ (\A k \in QualityKeys : ~IsNum(qrec.metrics[k])) =>
               qrec.out.quality_score = Num(0)

\* A record with one metric NaN, one absent and the other three in the best
\* tier: it scores 55, the 45 points of the two missing metrics being lost.
C9_Witness ==
    /\ qrec.pc = "scored"
    /\ qrec.metrics.roic_5y_avg = NaN
    /\ qrec.metrics.eps_cagr_5y = None
    /\ qrec.metrics.op_margin_std_5y = Num(2)
    /\ qrec.metrics.rev_cagr_5y = Num(15)
    /\ qrec.metrics.debt_to_equity = Num(50)
    /\ qrec.out.quality_score = Num(55)

\* The tier tables of growth_score as the claim states them.
Stated_growth_points(m) ==
    (IF IsNum(m.r40)
     THEN TierAtLeast(m.r40.v, <<<<60, 40>>, <<50, 32>>, <<40, 24>>, <<30, 16>>, <<20, 8>>>>)
     ELSE 0)
    + (IF IsNum(m.arr)
       THEN TierAtLeast(m.arr.v, <<<<35, 40>>, <<25, 32>>, <<18, 24>>, <<12, 16>>, <<8, 8>>>>)
       ELSE 0)
    + (IF IsNum(m.gm)
       THEN TierAtLeast(m.gm.v, <<<<80, 20>>, <<75, 16>>, <<70, 12>>, <<65, 8>>>>)
       ELSE 0)

GrowthAllBest(m) ==
    /\ IsNum(m.r40) /\ m.r40.v >= 60
    /\ IsNum(m.arr) /\ m.arr.v >= 35
    /\ IsNum(m.gm) /\ m.gm.v >= 80

\* C10: growth_score is the sum of the tier points of rule_of_40 (40/32/24/16/8),
\* arr_growth (40/32/24/16/8) and gross_margin_avg (20/16/12/8), normalised to
\* 0-100, and every record with rule_of_40 >= 60, arr_growth >= 0.35 and
\* gross_margin_avg >= 0.80 has growth_score 100.
C10_GrowthTierTables ==
    CyberScored =>
        LET m == cyber_locals(crec.metrics)
        IN  /\ crec.out.growth_score = Num(PyRound(100 * Stated_growth_points(m), 100))
            /\ GrowthAllBest(m) => crec.out.growth_score = Num(100)

\* The record rule_of_40 = 65, arr_growth = 0.40, gross_margin_avg = 0.82 with
\* every other metric absent, scored 100.
C10_Witness ==
    /\ crec.pc = "scored"
    /\ crec.metrics = [arr_growth |-> Num(40), gross_margin_avg |-> Num(82),
                       gross_margin_trend |-> None, fcf_margin |-> None,
                       rule_of_40 |-> Num(65), sga_eff |-> None, rd_eff |-> None]
    /\ crec.out.growth_score = Num(100)

\* The weights of the defined metrics of growth_score and of profitability_score.
DefinedGrowthWeight(m) ==
    (IF IsNum(m.r40) THEN 40 ELSE 0) + (IF IsNum(m.arr) THEN 40 ELSE 0)
        + (IF IsNum(m.gm) THEN 20 ELSE 0)

DefinedProfWeight(m) ==
    (IF IsNum(m.fcf_m) THEN 40 ELSE 0) + (IF IsNum(m.gm) THEN 30 ELSE 0)
        + (IF IsNum(m.sga) THEN 15 ELSE 0) + (IF IsNum(m.rd) THEN 15 ELSE 0)

GrowthDefinedAllBest(m) ==
    /\ IsNum(m.r40) => m.r40.v >= 60
    /\ IsNum(m.arr) => m.arr.v >= 35
    /\ IsNum(m.gm) => m.gm.v >= 80

ProfDefinedAllBest(m) ==
    /\ IsNum(m.fcf_m) => m.fcf_m.v >= 30
    /\ IsNum(m.gm) => m.gm.v >= 80
    /\ IsNum(m.sga) => m.sga.v <= 30
    /\ IsNum(m.rd) => (10 <= m.rd.v /\ m.rd.v <= 20)

\* C7: in growth_score and profitability_score an undefined metric adds no weight
\* to the achieved total and none to the achievable total, so a record whose
\* defined metrics are all in the top tier scores 100 whichever other metrics are
\* undefined.
C7_UndefinedShrinksDenominator ==
    CyberScored =>
        LET m == cyber_locals(crec.metrics)
        IN  /\ g_max(m.r40, m.arr, m.gm) = DefinedGrowthWeight(m)
            /\ p_max(m.fcf_m, m.gm, m.sga, m.rd) = DefinedProfWeight(m)
            /\ (DefinedGrowthWeight(m) > 0 /\ GrowthDefinedAllBest(m)) =>
                   crec.out.growth_score = Num(100)
            /\ (DefinedProfWeight(m) > 0 /\ ProfDefinedAllBest(m)) =>
                   crec.out.profitability_score = Num(100)

HigherIsBetter == {"roic_5y_avg", "rev_cagr_5y", "eps_cagr_5y", "rule_of_40",
                   "arr_growth", "gross_margin_avg", "fcf_margin",
                   "gross_margin_trend"}

LowerIsBetter == {"op_margin_std_5y", "debt_to_equity", "sga_eff"}

\* The metric key went from old to new, both numbers, in its direction of
\* improvement; rd_eff improves towards its band [0.10, 0.20].
Improved(key, old, new) ==
    /\ IsNum(old) /\ IsNum(new)
    /\ \/ key \in HigherIsBetter /\ new.v > old.v
       \/ key \in LowerIsBetter /\ new.v < old.v
       \/ key = "rd_eff" /\ new.v > old.v /\ new.v <= 20
       \/ key = "rd_eff" /\ new.v < old.v /\ new.v >= 10

Increased(key, old, new) == IsNum(old) /\ IsNum(new) /\ new.v > old.v

NoScoreLower(now, before) ==
    \A s \in DOMAIN now \ {"metrics"} : now[s].v >= before[s].v

\* C6 as stated: raising the value of any single metric, the others fixed, never
\* lowers quality_score, growth_score, profitability_score or balanced_score.
C6_MonotoneInEveryMetric ==
    /\ qrec.pc = "rescored" =>
         \A k \in QualityKeys :
             Increased(k, qrec.prev.metrics[k], qrec.metrics[k]) =>
                 NoScoreLower(qrec.out, qrec.prev.out)
    /\ crec.pc = "rescored" =>
         \A k \in CyberKeys :
             Increased(k, crec.prev.metrics[k], crec.metrics[k]) =>
                 NoScoreLower(crec.out, crec.prev.out)

\* C6, amended: moving a single metric in its direction of improvement, the
\* others fixed, never lowers a score: raising a higher-is-better metric, lowering
\* a lower-is-better one (op_margin_std_5y, debt_to_equity, sga_eff), or moving
\* rd_eff towards its band [0.10, 0.20].
C6_MonotoneInImprovement ==
    /\ qrec.pc = "rescored" =>
         \A k \in QualityKeys :
             Improved(k, qrec.prev.metrics[k], qrec.metrics[k]) =>
                 NoScoreLower(qrec.out, qrec.prev.out)
    /\ crec.pc = "rescored" =>
         \A k \in CyberKeys :
             Improved(k, crec.prev.metrics[k], crec.metrics[k]) =>
                 NoScoreLower(crec.out, crec.prev.out)

\* sga_eff was lowered and profitability_score and balanced_score both rose.
C6_Witness ==
    /\ crec.pc = "rescored"
    /\ Improved("sga_eff", crec.prev.metrics.sga_eff, crec.metrics.sga_eff)
    /\ crec.out.profitability_score.v > crec.prev.out.profitability_score.v
    /\ crec.out.balanced_score.v > crec.prev.out.balanced_score.v

----------------------------------------------------------------------------
(* The statement snapshots get_yahoo_financials may hand over *)

\* Bound on the number of periods of a statement.
MaxPeriods == 3

IncomeColumns == {"Total Revenue", "Operating Income", "Net Income", "Diluted EPS",
                  "Basic EPS"}
BalanceColumns == {"Total Liab", "Total Stockholder Equity"}

\* The amount of a line item at period k when nothing is wrong with it.
BaseAmount(col, k) ==
    CASE col = "Total Revenue" -> k + 1
      [] col = "Operating Income" -> (k + 1) \div 2
      [] col = "Net Income" -> k
      [] col = "Diluted EPS" -> k
      [] col = "Basic EPS" -> k + 1
      [] col = "Total Liab" -> k + 2
      [] col = "Total Stockholder Equity" -> 2 * ((k + 1) \div 2)
      [] col = "Gross Profit" -> k
      [] col = "Operating Cash Flow" -> k + 1
      [] col = "Capital Expenditure" -> 0 - 1
      [] col = "Free Cash Flow" -> k
      [] col = "SellingGeneralAdministrative" -> k + 2
      [] OTHER -> k

\* One cell of the columns cols and periods keys that departs from the base
\* amounts: NaN, zero or negative.
NoDefect == [col |-> "none", k |-> 0, v |-> NaN]
Defects(cols, keys) ==
    {NoDefect} \cup [col : cols, k : keys, v : {NaN, Amt(0), Amt(0 - 1)}]

\* Yahoo lists the newest period first.
RECURSIVE NewestFirst(_)
NewestFirst(S) ==
    IF S = {} THEN <<>>
    ELSE LET hi == CHOOSE k \in S : \A j \in S : k >= j
         IN  <<hi>> \o NewestFirst(S \ {hi})

Table(cols, keys, defect) ==
    [cols |-> cols,
     idx |-> NewestFirst(keys),
     cell |-> [c \in cols |->
                 [k \in keys |-> IF defect.col = c /\ defect.k = k THEN defect.v
                                 ELSE Amt(BaseAmount(c, k))]]]

\* The balance sheet has the periods of the income statement, or is one period
\* ahead of it, or has no rows.
BalanceKeys(shape, n) ==
    CASE shape = "same" -> 1..n
      [] shape = "ahead" -> 2..(n + 1)
      [] OTHER -> {}

BalanceShapes == {"same", "ahead", "empty"}

\* The income statement lacks at most two of its columns, or is the empty frame
\* Yahoo returns for a symbol it does not know.
IncomeColumnSets == {ic \in SUBSET IncomeColumns : Cardinality(ic) >= 3 \/ ic = {}}

Snapshot(ic, bc, shape, n, d) ==
    [income |-> Table(ic, 1..n, d), balance |-> Table(bc, BalanceKeys(shape, n), d)]

Symbols == {"CRWD", "MSFT"}

ExtractInit ==
    /\ ext \in [pc : {"start"}, symbol : Symbols, data : {Idle}, out : {Idle}]
    /\ cagr = Idle /\ batch = Idle /\ qrec = Idle /\ crec = Idle /\ cyb = Idle /\ dash = Idle /\ win = Idle /\ inv = Idle

\* compute_quality_metrics(symbol): the statements are fetched and the metrics
\* computed from them, or the exception leaves the function.
CallComputeQualityMetrics ==
    /\ ext.pc = "start"
    /\ \E ic \in IncomeColumnSets, bc \in SUBSET BalanceColumns,
          shape \in BalanceShapes, n \in 0..MaxPeriods :
         \E d \in Defects(ic \cup bc, 1..n \cup BalanceKeys(shape, n)) :
           LET data == Snapshot(ic, bc, shape, n, d)
           IN  ext' = [ext EXCEPT !.pc = "done", !.data = data,
                                  !.out = compute_quality_metrics(ext.symbol, data)]
    /\ UNCHANGED <<cagr, batch, qrec, crec, cyb, dash, win, inv>>

\* The caller turns to the next symbol.
NextSymbol ==
    /\ ext.pc = "done"
    /\ \E sym \in Symbols :
           ext' = [pc |-> "start", symbol |-> sym, data |-> Idle, out |-> Idle]
    /\ UNCHANGED <<cagr, batch, qrec, crec, cyb, dash, win, inv>>

ExtractNext == CallComputeQualityMetrics \/ NextSymbol

SpecExtract == ExtractInit /\ [][ExtractNext]_vars

RequiredIncomeColumns == {"Total Revenue", "Operating Income"}

ExtractDone == ext.pc = "done"

MissingRequired == RequiredIncomeColumns \ ext.data.income.cols

\* C2: when the income statement lacks Total Revenue or Operating Income,
\* compute_quality_metrics fails with a missing-data error whose message names
\* the missing concept and the symbol, and returns no metrics record.
C2_MissingRequiredRaises ==
    (ExtractDone /\ MissingRequired # {}) =>
        /\ ext.out.kind = "raise"
        /\ ext.out.exc = "ValueError"
        /\ \E col \in MissingRequired : col \in Range(ext.out.msg)
        /\ ext.symbol \in Range(ext.out.msg)

\* MSFT's income statement has Total Revenue and no Operating Income: the call
\* raised, naming Operating Income and MSFT.
C2_Witness ==
    /\ ExtractDone
    /\ ext.symbol = "MSFT"
    /\ MissingRequired = {"Operating Income"}
    /\ ext.out.kind = "raise"
    /\ "Operating Income" \in Range(ext.out.msg)
    /\ "MSFT" \in Range(ext.out.msg)

\* C3: the missing Total Revenue / Operating Income error is the only hard
\* failure of compute_quality_metrics: whenever both are present, also when other
\* columns are absent or all-missing or the balance sheet has no rows, it returns
\* a record with all five metrics, each a value or undefined, without raising.
C3_OnlyHardFailure ==
    (ExtractDone /\ MissingRequired = {}) =>
        /\ ext.out.kind = "return"
        /\ DOMAIN ext.out.value = QualityKeys
        /\ \A k \in QualityKeys : ext.out.value[k] = NaN \/ IsNum(ext.out.value[k])

----------------------------------------------------------------------------
(* Cyber metrics: quality_cyber.py, compute_cyber_metrics *)

\* The symbols with a registered 10-K URL: the mapping is empty.
TEN_K_URLS == {}

SgaCandidates ==
    <<"Selling General Administrative", "SellingGeneralAdministrative",
      "Sales General Administrative", "SG&A", "Selling, General & Administrative">>

RdCandidates ==
    <<"Research Development", "ResearchAndDevelopment", "ResearchAndDevelopmentExpenses",
      "Research & Development", "R D">>

\* Column lookup that knows a line item by its first name only.
first_name_only(df, candidates) ==
    IF candidates # <<>> /\ Head(candidates) \in df.cols THEN Head(candidates)
    ELSE "None"

\* The first candidate that is a column of df, or "None".
RECURSIVE first_existing_column(_, _)
first_existing_column(df, candidates) ==
    IF candidates = <<>> THEN "None"
    ELSE IF Head(candidates) \in df.cols THEN Head(candidates)
    ELSE first_existing_column(df, Tail(candidates))

\* Revenue series (ARR growth proxy)
arr_growth(income) ==
    IF "Total Revenue" \in income.cols
    THEN LET rev_series == dropna(column(income, "Total Revenue"))
             rev_6 == tail(rev_series, 6)
         IN  IF Len(rev_series) >= 2
             THEN cyber_safe_cagr(rev_6[1].v.v, rev_6[Len(rev_6)].v.v, Len(rev_6) - 1).value
             ELSE NaN
    ELSE NaN

\* Gross margin level and trend
gm_5(income) ==
    tail(dropna(series_div(column(income, "Gross Profit"),
                           replace_zero_nan(column(income, "Total Revenue")))), 5)

gross_margin_avg(income) ==
    IF "Gross Profit" \in income.cols /\ "Total Revenue" \in income.cols
    THEN IF Len(gm_5(income)) >= 2 THEN mean(gm_5(income)) ELSE NaN
    ELSE NaN

gross_margin_trend(income) ==
    IF "Gross Profit" \in income.cols /\ "Total Revenue" \in income.cols
    THEN IF Len(gm_5(income)) >= 2
         THEN ToNum(RatSub(gm_5(income)[Len(gm_5(income))].v, gm_5(income)[1].v))
         ELSE NaN
    ELSE NaN

\* FCF margin that takes a missing Capital Expenditure column for no spending.
fcf_margin_without_capex(income, cashflow) ==
    IF "Operating Cash Flow" \in cashflow.cols /\ "Total Revenue" \in income.cols
    THEN LET ocf_latest == tail(dropna(column(cashflow, "Operating Cash Flow")), 1)
             rev_latest_cf == tail(dropna(column(income, "Total Revenue")), 1)
         IN  IF Len(ocf_latest) = 1 /\ Len(rev_latest_cf) = 1
             THEN IF rev_latest_cf[1].v.v # 0
                  THEN ToNum(Rat(ocf_latest[1].v.v, rev_latest_cf[1].v.v))
                  ELSE NaN
             ELSE NaN
    ELSE NaN

\* FCF margin (Operating CF + Capex): each of the three series gives its own
\* latest entry that is not NaN.
fcf_margin(income, cashflow) ==
    IF /\ "Operating Cash Flow" \in cashflow.cols
       /\ "Capital Expenditure" \in cashflow.cols
       /\ "Total Revenue" \in income.cols
    THEN LET ocf_latest == tail(dropna(column(cashflow, "Operating Cash Flow")), 1)
             capex_latest == tail(dropna(column(cashflow, "Capital Expenditure")), 1)
             rev_latest_cf == tail(dropna(column(income, "Total Revenue")), 1)
         IN  IF Len(ocf_latest) = 1 /\ Len(capex_latest) = 1 /\ Len(rev_latest_cf) = 1
             THEN IF rev_latest_cf[1].v.v # 0
                  THEN ToNum(Rat(ocf_latest[1].v.v + capex_latest[1].v.v,
                                 rev_latest_cf[1].v.v))
                  ELSE NaN
             ELSE NaN
    ELSE NaN

\* Rule of 40, in points: growth% + FCF margin%.
rule_of_40(arr, fcf_m) ==
    IF ~isnan(arr) /\ ~isnan(fcf_m) THEN Num(arr.v + fcf_m.v) ELSE NaN

\* The latest entry of a line item over the latest revenue.
latest_over_revenue(income, col) ==
    IF col # "None" /\ "Total Revenue" \in income.cols
    THEN LET latest == tail(dropna(column(income, col)), 1)
             rev_latest == tail(dropna(column(income, "Total Revenue")), 1)
         IN  IF Len(latest) = 1 /\ Len(rev_latest) = 1 /\ rev_latest[1].v.v # 0
             THEN ToNum(Rat(latest[1].v.v, rev_latest[1].v.v))
             ELSE NaN
    ELSE NaN

sga_eff(income) == latest_over_revenue(income, first_existing_column(income, SgaCandidates))
rd_eff(income) == latest_over_revenue(income, first_existing_column(income, RdCandidates))

\* What get_rd_sga_from_10k_url gave when no filing was read.
NoFiling == Return([rd_val |-> None, sga_val |-> None])

\* The fallback is entered, and get_rd_sga_from_10k_url called: ten_k_urls is the
\* set of symbols TEN_K_URLS holds a URL for.
sec_fallback_whenever_registered(symbol, ten_k_urls, sga, rd) == symbol \in ten_k_urls

sec_fallback_invoked(symbol, ten_k_urls, sga, rd) ==
    symbol \in ten_k_urls /\ (isnan(sga) \/ isnan(rd))

\* Fallback that takes an amount the scraper did not find for zero.
sec_fallback_none_as_zero(symbol, ten_k_urls, income, sga, rd, scraped, eff, val) ==
    IF sec_fallback_invoked(symbol, ten_k_urls, sga, rd) /\ isnan(eff)
    THEN IF scraped.kind = "return" /\ val # None /\ "Total Revenue" \in income.cols
         THEN LET rev_latest == tail(dropna(column(income, "Total Revenue")), 1)
              IN  IF Len(rev_latest) = 1 /\ rev_latest[1].v.v # 0
                  THEN ToNum(Rat(val.v, rev_latest[1].v.v))
                  ELSE eff
         ELSE Num(0)
    ELSE eff

\* SEC 10-K fallback for one of the two ratios: eff is the ratio from the
\* statements and val the amount the scraper returned for it.
sec_fallback(symbol, ten_k_urls, income, sga, rd, scraped, eff, val) ==
    IF sec_fallback_invoked(symbol, ten_k_urls, sga, rd)
    THEN IF scraped.kind = "return" /\ "Total Revenue" \in income.cols
         THEN LET rev_latest == tail(dropna(column(income, "Total Revenue")), 1)
              IN  IF Len(rev_latest) = 1 /\ rev_latest[1].v.v # 0
                  THEN IF isnan(eff) /\ val # None
                       THEN ToNum(Rat(val.v, rev_latest[1].v.v))
                       ELSE eff
                  ELSE eff
         ELSE eff
    ELSE eff

\* The record compute_cyber_metrics returns, from the values of its local
\* variables before the fallback.
cyber_metrics_record(symbol, ten_k_urls, income, scraped, arr, gm_avg, gm_trend, fcf_m, sga, rd) ==
    [arr_growth |-> arr,
     gross_margin_avg |-> gm_avg,
     gross_margin_trend |-> gm_trend,
     fcf_margin |-> fcf_m,
     rule_of_40 |-> rule_of_40(arr, fcf_m),
     sga_eff |-> sec_fallback(symbol, ten_k_urls, income, sga, rd, scraped, sga,
                              IF scraped.kind = "return" THEN scraped.value.sga_val
                              ELSE None),
     rd_eff |-> sec_fallback(symbol, ten_k_urls, income, sga, rd, scraped, rd,
                             IF scraped.kind = "return" THEN scraped.value.rd_val
                             ELSE None)]

\* The body of compute_cyber_metrics on the sorted tables.
cyber_metrics_body(symbol, ten_k_urls, income, cashflow, scraped) ==
    cyber_metrics_record(symbol, ten_k_urls, income, scraped,
                         arr_growth(income), gross_margin_avg(income),
                         gross_margin_trend(income), fcf_margin(income, cashflow),
                         sga_eff(income), rd_eff(income))

\* compute_cyber_metrics(symbol), data being what get_yahoo_financials(symbol)
\* returned, ten_k_urls the symbols of TEN_K_URLS and scraped what
\* get_rd_sga_from_10k_url returns or raises.
compute_cyber_metrics(symbol, data, ten_k_urls, scraped) ==
    cyber_metrics_body(symbol, ten_k_urls, sort_index(data.income),
                       sort_index(data.cashflow), scraped)

----------------------------------------------------------------------------
(* Valuation and the per-company outputs: analyze_company.py, export_latest.py *)

\* get_basic_valuation(symbol): info is the Ticker's info mapping and cashflow its
\* cash-flow statement, newest period first.  An exception inside the try block
\* leaves fcf_yield NaN.
get_basic_valuation(info, cashflow) ==
    LET mcap == get(info, "marketCap")
        fcf == IF "Free Cash Flow" \in cashflow.cols
               THEN dropna(column(cashflow, "Free Cash Flow"))
               ELSE <<>>
    IN  [pe |-> get(info, "trailingPE"),
         peg |-> get(info, "pegRatio"),
         ps |-> get(info, "priceToSalesTrailing12Months"),
         pb |-> get(info, "priceToBook"),
         fcf_yield |-> IF Len(fcf) = 0 THEN NaN
                       ELSE IF mcap # None /\ mcap # Num(0)
                            THEN ToNum(Rat(fcf[1].v.v, mcap.v))
                            ELSE NaN]

\* The dict build_row returns, from the values of its local variables.
row(symbol, bucket, timestamp, base_metrics, base_score, cyber_raw, cyber_scores, val) ==
    [timestamp_utc |-> timestamp,
     symbol |-> symbol,
     bucket |-> bucket,
     quality_score |-> base_score.quality_score,
     roic |-> get(base_metrics, "roic"),
     gross_margin |-> get(base_metrics, "gross_margin"),
     net_margin |-> get(base_metrics, "net_margin"),
     revenue_cagr |-> get(base_metrics, "revenue_cagr"),
     fcf_cagr |-> get(base_metrics, "fcf_cagr"),
     growth_score |-> cyber_scores.growth_score,
     profitability_score |-> cyber_scores.profitability_score,
     balanced_score |-> cyber_scores.balanced_score,
     arr_growth |-> get(cyber_raw, "arr_growth"),
     gross_margin_avg |-> get(cyber_raw, "gross_margin_avg"),
     gross_margin_trend |-> get(cyber_raw, "gross_margin_trend"),
     fcf_margin |-> get(cyber_raw, "fcf_margin"),
     rule_of_40 |-> get(cyber_raw, "rule_of_40"),
     sga_eff |-> get(cyber_raw, "sga_eff"),
     rd_eff |-> get(cyber_raw, "rd_eff"),
     pe |-> val.pe,
     peg |-> val.peg,
     ps |-> val.ps,
     pb |-> val.pb,
     fcf_yield |-> val.fcf_yield]

\* build_row from the cyber metrics on.
build_row_cyber(symbol, bucket, timestamp, base_metrics, cyber_raw, val) ==
    row(symbol, bucket, timestamp, base_metrics, score_quality(base_metrics),
        cyber_raw, score_cyber_styles(cyber_raw), val)

\* build_row after compute_quality_metrics: its exception leaves build_row.
\* compute_cyber_metrics fetches the statements again, and get_basic_valuation
\* once more.
build_row_base(symbol, bucket, timestamp, fetched, info, base) ==
    IF base.kind = "raise" THEN base
    ELSE Return(build_row_cyber(symbol, bucket, timestamp, base.value,
                                compute_cyber_metrics(symbol, fetched[2], TEN_K_URLS,
                                                      NoFiling),
                                get_basic_valuation(info, fetched[3].cashflow)))

\* build_row(symbol, bucket): the flat record of one symbol, or the exception that
\* leaves the function.  fetched[i] is what Yahoo returns to the i-th request for
\* the statements that the call makes.
build_row(symbol, bucket, timestamp, fetched, info) ==
    build_row_base(symbol, bucket, timestamp, fetched, info,
                   compute_quality_metrics(symbol, fetched[1]))

\* _fmt(x, pct, decimals): "N/A" for None and NaN, else the number with its format.
fmt(x, pct, decimals) ==
    IF x = None \/ x = NaN THEN [text |-> "N/A"]
    ELSE [text |-> "number", x |-> x, pct |-> pct, decimals |-> decimals]

\* Net margin of the report: the last row of the statement as fetched.
report_net_margin(income_df) ==
    IF "Net Income" \in income_df.cols /\ "Total Revenue" \in income_df.cols
    THEN LET ni == tail(dropna(column(income_df, "Net Income")), 1)
             rev == tail(dropna(column(income_df, "Total Revenue")), 1)
         IN  IF Len(ni) = 1 /\ Len(rev) = 1 /\ rev[1].v.v # 0
             THEN ToNum(Rat(ni[1].v.v, rev[1].v.v))
             ELSE NaN
    ELSE NaN

\* FCF CAGR of the report, over the rows of the statement as fetched.
report_fcf_cagr(cashflow_df) ==
    IF "Free Cash Flow" \in cashflow_df.cols
    THEN LET fcf_6 == tail(dropna(column(cashflow_df, "Free Cash Flow")), 6)
         IN  IF Len(fcf_6) >= 2 /\ fcf_6[1].v.v > 0 /\ fcf_6[Len(fcf_6)].v.v > 0
             THEN PowExpr(fcf_6[1].v.v, fcf_6[Len(fcf_6)].v.v, Len(fcf_6) - 1).value
             ELSE NaN
    ELSE NaN

\* rev_cagr_5y is the float 0.0: the first and the last revenue of the window are
\* the same positive amount.
rev_cagr_is_zero(income) ==
    LET rev_6 == tail(dropna(column(income, "Total Revenue")), 6)
    IN  Len(rev_6) >= 2 /\ rev_6[1].v.v > 0 /\ rev_6[1].v = rev_6[Len(rev_6)].v

\* base_metrics.get("rev_cagr_5y") or base_metrics.get("revenue_cagr"): a growth
\* of 0.0 is falsy.
report_revenue_cagr(base_metrics, income) ==
    IF rev_cagr_is_zero(income) THEN get(base_metrics, "revenue_cagr")
    ELSE get(base_metrics, "rev_cagr_5y")

\* The fields of the report in the order of its lines, from the values of the
\* local variables of analyze_company; income is the sorted income statement that
\* compute_quality_metrics worked on.
report(symbol, yahoo, income, base_metrics, base_score, cyber_raw, cyber_scores, val) ==
    [symbol |-> symbol,
     quality_score |-> fmt(base_score.quality_score, FALSE, 0),
     roic |-> fmt(get(base_metrics, "roic_5y_avg"), TRUE, 2),
     gross_margin |-> fmt(get(cyber_raw, "gross_margin_avg"), TRUE, 2),
     net_margin |-> fmt(report_net_margin(yahoo.income), TRUE, 2),
     revenue_cagr |-> fmt(report_revenue_cagr(base_metrics, income), TRUE, 2),
     fcf_growth |-> fmt(report_fcf_cagr(yahoo.cashflow), TRUE, 2),
     growth_score |-> fmt(cyber_scores.growth_score, FALSE, 0),
     profitability_score |-> fmt(cyber_scores.profitability_score, FALSE, 0),
     balanced_score |-> fmt(cyber_scores.balanced_score, FALSE, 0),
     arr_growth |-> fmt(get(cyber_raw, "arr_growth"), TRUE, 2),
     gross_margin_avg |-> fmt(get(cyber_raw, "gross_margin_avg"), TRUE, 2),
     gross_margin_trend |-> fmt(get(cyber_raw, "gross_margin_trend"), TRUE, 2),
     fcf_margin |-> fmt(get(cyber_raw, "fcf_margin"), TRUE, 2),
     rule_of_40 |-> fmt(get(cyber_raw, "rule_of_40"), FALSE, 2),
     sga_eff |-> fmt(get(cyber_raw, "sga_eff"), TRUE, 2),
     rd_eff |-> fmt(get(cyber_raw, "rd_eff"), TRUE, 2),
     pe |-> fmt(val.pe, FALSE, 2),
     peg |-> fmt(val.peg, FALSE, 2),
     ps |-> fmt(val.ps, FALSE, 2),
     pb |-> fmt(val.pb, FALSE, 2),
     fcf_yield |-> fmt(val.fcf_yield, TRUE, 2)]

\* analyze_company from the cyber metrics on.
analyze_company_cyber(symbol, yahoo, income, base_metrics, cyber_raw, val) ==
    report(symbol, yahoo, income, base_metrics, score_quality(base_metrics),
           cyber_raw, score_cyber_styles(cyber_raw), val)

\* analyze_company after compute_quality_metrics: its exception leaves
\* analyze_company.
\* The statements are fetched again by compute_cyber_metrics, by
\* get_basic_valuation and for the net margin and the FCF growth of the report.
analyze_company_base(symbol, fetched, info, base) ==
    IF base.kind = "raise" THEN base
    ELSE Return(analyze_company_cyber(symbol, fetched[4], sort_index(fetched[1].income),
                                      base.value,
                                      compute_cyber_metrics(symbol, fetched[2], TEN_K_URLS,
                                                            NoFiling),
                                      get_basic_valuation(info, fetched[3].cashflow)))

\* analyze_company(symbol): the report, or the exception that leaves the function.
\* fetched[i] is what Yahoo returns to the i-th request for the statements that
\* the call makes.
analyze_company(symbol, fetched, info) ==
    analyze_company_base(symbol, fetched, info,
                         compute_quality_metrics(symbol, fetched[1]))

----------------------------------------------------------------------------
(* The batch runs: export_latest.py main, run_all.py run_all *)

PURE_PLAY_CYBER == <<"CRWD", "S", "PANW", "FTNT", "NET", "ZS", "OKTA", "TENB", "QLYS", "CHKP">>
CLOUD_SECURITY_LEADERS == <<"MSFT", "GOOGL", "AMZN", "SNOW", "DDOG", "CSCO">>
WATCHLIST == PURE_PLAY_CYBER \o CLOUD_SECURITY_LEADERS

CyberIncomeColumns ==
    IncomeColumns \cup {"Gross Profit", "Selling General Administrative",
                        "Research Development"}
CashflowColumns == {"Operating Cash Flow", "Capital Expenditure", "Free Cash Flow"}

\* What Yahoo holds for the one symbol of the run whose statements depart from
\* the complete ones.
Oddities == {"complete", "no_total_revenue", "no_operating_income", "unknown_symbol",
             "no_net_income", "no_cashflow"}

OddIncomeColumns(odd) ==
    CASE odd = "no_total_revenue" -> CyberIncomeColumns \ {"Total Revenue"}
      [] odd = "no_operating_income" -> CyberIncomeColumns \ {"Operating Income"}
      [] odd = "no_net_income" -> CyberIncomeColumns \ {"Net Income"}
      [] odd = "unknown_symbol" -> {}
      [] OTHER -> CyberIncomeColumns

Statements(odd) ==
    LET keys == IF odd = "unknown_symbol" THEN {} ELSE 1..MaxPeriods
    IN  [income |-> Table(OddIncomeColumns(odd), keys, NoDefect),
         balance |-> Table(IF odd = "unknown_symbol" THEN {} ELSE BalanceColumns,
                           keys, NoDefect),
         cashflow |-> Table(IF odd \in {"unknown_symbol", "no_cashflow"} THEN {}
                            ELSE CashflowColumns,
                            IF odd = "no_cashflow" THEN {} ELSE keys, NoDefect)]

\* The info mapping of a Ticker: complete, or without market cap and PEG.
Infos ==
    {[trailingPE |-> Num(2500), pegRatio |-> Num(150),
      priceToSalesTrailing12Months |-> Num(1200), priceToBook |-> Num(800),
      marketCap |-> Num(40)],
     [trailingPE |-> Num(2500), priceToSalesTrailing12Months |-> Num(1200),
      priceToBook |-> Num(800)]}

\* Yahoo during one run: the symbol odd_symbol has the statements Statements(odd),
\* every other symbol the complete ones.
Yahoos == [odd_symbol : Range(WATCHLIST), odd : Oddities, info : Infos]

\* get_yahoo_financials(symbol)
get_yahoo_financials(yahoo, symbol) ==
    IF symbol = yahoo.odd_symbol THEN Statements(yahoo.odd) ELSE Statements("complete")

\* Yahoo holds the same statements during the whole call: every request of the
\* call returns data.
Unchanging(data) == <<data, data, data, data>>

\* The file data/latest_scores.csv has not been written.
Absent == [t |-> "absent"]

Timestamp(clock) == [zone |-> "America/New_York", at |-> clock]

BatchInit ==
    /\ \/ batch \in [prog : {"export_latest"}, pc : {"pure_play"}, yahoo : Yahoos,
                     i : {1}, rows : {<<>>}, attempted : {<<>>}, csv : {Absent},
                     stdout : {<<>>}, exc : {NoRaise}]
       \/ batch \in [prog : {"run_all"}, pc : {"watchlist"}, yahoo : Yahoos,
                     i : {1}, rows : {<<>>}, attempted : {<<>>}, csv : {Absent},
                     stdout : {<<>>}, exc : {NoRaise}]
    /\ cagr = Idle /\ ext = Idle /\ qrec = Idle /\ crec = Idle /\ cyb = Idle /\ dash = Idle /\ win = Idle /\ inv = Idle

\* One iteration of a loop of main: build_row of the next symbol of the list is
\* appended to rows, or its exception leaves main.
AppendRow(list, bucket, after) ==
    \E sym \in {list[batch.i]} :
      \E built \in {build_row(sym, bucket, Timestamp(Len(batch.attempted)),
                              Unchanging(get_yahoo_financials(batch.yahoo, sym)),
                              batch.yahoo.info)} :
        IF built.kind = "raise"
        THEN batch' = [batch EXCEPT !.pc = "crashed", !.exc = built,
                                    !.attempted = Append(@, sym)]
        ELSE batch' = [batch EXCEPT !.rows = Append(@, built.value),
                                    !.attempted = Append(@, sym),
                                    !.i = IF batch.i = Len(list) THEN 1 ELSE @ + 1,
                                    !.pc = IF batch.i = Len(list) THEN after ELSE @]

\* for sym in PURE_PLAY_CYBER: rows.append(build_row(sym, bucket="pure_play"))
BuildRowPurePlay ==
    /\ batch.pc = "pure_play"
    /\ AppendRow(PURE_PLAY_CYBER, "pure_play", "cloud_leader")
    /\ UNCHANGED <<cagr, ext, qrec, crec, cyb, dash, win, inv>>

\* for sym in CLOUD_SECURITY_LEADERS: rows.append(build_row(sym, bucket="cloud_leader"))
BuildRowCloudLeader ==
    /\ batch.pc = "cloud_leader"
    /\ AppendRow(CLOUD_SECURITY_LEADERS, "cloud_leader", "write")
    /\ UNCHANGED <<cagr, ext, qrec, crec, cyb, dash, win, inv>>

\* The rows are written to data/latest_scores.csv and the count is printed.
WriteCsv ==
    /\ batch.pc = "write"
    /\ batch' = [batch EXCEPT !.pc = "done", !.csv = batch.rows,
                              !.stdout = Append(@, [wrote |-> Len(batch.rows)])]
    /\ UNCHANGED <<cagr, ext, qrec, crec, cyb, dash, win, inv>>

\* One iteration of run_all: the report of the next symbol of WATCHLIST is
\* printed, then three newlines; or the exception of analyze_company leaves run_all.
PrintAnalysis ==
    /\ batch.pc = "watchlist"
    /\ \E sym \in {WATCHLIST[batch.i]} :
         \E printed \in {analyze_company(sym,
                                         Unchanging(get_yahoo_financials(batch.yahoo, sym)),
                                         batch.yahoo.info)} :
           IF printed.kind = "raise"
           THEN batch' = [batch EXCEPT !.pc = "crashed", !.exc = printed,
                                       !.attempted = Append(@, sym)]
           ELSE batch' = [batch EXCEPT
                              !.stdout = @ \o <<printed.value, [text |-> "\n\n\n"]>>,
                              !.attempted = Append(@, sym),
                              !.i = @ + 1,
                              !.pc = IF batch.i = Len(WATCHLIST) THEN "done" ELSE @]
    /\ UNCHANGED <<cagr, ext, qrec, crec, cyb, dash, win, inv>>

BatchNext == BuildRowPurePlay \/ BuildRowCloudLeader \/ WriteCsv \/ PrintAnalysis

SpecBatch == BatchInit /\ [][BatchNext]_vars

BatchStopped == batch.pc \in {"done", "crashed"}

\* The statements of the odd symbol lack a required concept.
OneCompanyRaises ==
    LET out == compute_quality_metrics(batch.yahoo.odd_symbol,
                                       get_yahoo_financials(batch.yahoo,
                                                            batch.yahoo.odd_symbol))
    IN  out.kind = "raise" /\ out.exc = "ValueError"

\* C4: in a batch run of export_latest.main or run_all in which the metric
\* computation of one company raises the missing-required-concept error, the
\* error does not leave the loop: when the run has stopped, every company of the
\* list has been processed and the export, if the run is the export, is written.
C4_FailureNeverAbortsBatch ==
    (BatchStopped /\ OneCompanyRaises) =>
        /\ batch.pc = "done"
        /\ batch.attempted = WATCHLIST
        /\ batch.prog = "export_latest" => batch.csv # Absent

----------------------------------------------------------------------------
(* Profitability and balanced scores against their stated tables *)

\* Points of rd_eff by the band as stated: 15 inside [.10,.20], 12 in [.08,.10)
\* or (.20,.25], 9 in [.05,.08) or (.25,.30], 0 below .05 and above .30.
Stated_rd_band_points(v) ==
    IF 10 <= v /\ v <= 20 THEN 15
    ELSE IF (8 <= v /\ v < 10) \/ (20 < v /\ v <= 25) THEN 12
    ELSE IF (5 <= v /\ v < 8) \/ (25 < v /\ v <= 30) THEN 9
    ELSE 0

\* The tier tables of profitability_score as stated.
Stated_profitability_points(m) ==
    (IF IsNum(m.fcf_m)
     THEN TierAtLeast(m.fcf_m.v,
                      <<<<30, 40>>, <<20, 32>>, <<15, 24>>, <<10, 16>>, <<5, 8>>>>)
     ELSE 0)
    + (IF IsNum(m.gm)
       THEN TierAtLeast(m.gm.v, <<<<80, 30>>, <<75, 24>>, <<70, 18>>, <<65, 12>>>>)
       ELSE 0)
    + (IF IsNum(m.sga)
       THEN TierAtMost(m.sga.v, <<<<30, 15>>, <<40, 12>>, <<50, 9>>, <<60, 6>>>>)
       ELSE 0)
    + (IF IsNum(m.rd) THEN Stated_rd_band_points(m.rd.v) ELSE 0)

\* C11: profitability_score is the normalised sum of the tier points of
\* fcf_margin (40/32/24/16/8), gross_margin_avg (30/24/18/12), sga_eff
\* (15/12/9/6, lower is better) and the rd_eff band (15 inside [.10,.20], 12 and
\* 9 in the two rings around it, 0 below .05 and above .30).
C11_ProfitabilityTierTables ==
    CyberScored =>
        crec.out.profitability_score =
            Num(PyRound(100 * Stated_profitability_points(cyber_locals(crec.metrics)),
                        100))

\* rd_eff = 0.21 lies in the upper ring of the band: with the other three metrics
\* in their best tier the score is 40 + 30 + 15 + 12.
C11_Witness ==
    /\ crec.pc = "scored"
    /\ crec.metrics.rd_eff = Num(21)
    /\ crec.metrics.fcf_margin = Num(30)
    /\ crec.metrics.gross_margin_avg = Num(82)
    /\ crec.metrics.sga_eff = Num(30)
    /\ crec.out.profitability_score = Num(97)

\* The sub-weights of the defined metrics of each component of balanced_score.
DefinedGrowthComponentWeight(m) ==
    (IF IsNum(m.r40) THEN 20 ELSE 0) + (IF IsNum(m.arr) THEN 15 ELSE 0)

DefinedProfComponentWeight(m) ==
    (IF IsNum(m.fcf_m) THEN 20 ELSE 0) + (IF IsNum(m.gm) THEN 15 ELSE 0)

DefinedEffComponentWeight(m) ==
    (IF IsNum(m.sga) THEN 10 ELSE 0) + (IF IsNum(m.rd) THEN 10 ELSE 0)
        + (IF IsNum(m.gm_tr) THEN 10 ELSE 0)

\* C12: in balanced_score the achievable total of each component counts only the
\* sub-weights of the metrics that are defined, so a component whose defined
\* metrics are all in the top tier contributes its full weight: a record with
\* rule_of_40 in its top tier and arr_growth undefined gets the full 35 points
\* of the growth component.
C12_ComponentAchievableShrinks ==
    CyberScored =>
        LET m == cyber_locals(crec.metrics)
        IN  /\ growth_component_max(m.r40, m.arr) = DefinedGrowthComponentWeight(m)
            /\ prof_component_max(m.fcf_m, m.gm) = DefinedProfComponentWeight(m)
            /\ eff_component_max(m.sga, m.rd, m.gm_tr) = DefinedEffComponentWeight(m)
            /\ (IsNum(m.r40) /\ m.r40.v >= 60 /\ ~IsNum(m.arr)) =>
                   35 * growth_component(m.r40, m.arr)
                       = 35 * growth_component_max(m.r40, m.arr)

----------------------------------------------------------------------------
(* compute_cyber_metrics over the snapshots Yahoo may hand over *)

\* The income statement carries any of the line items the cyber metrics read,
\* with the SG&A item under the first or the second accepted name, or both.
CyberLineItems ==
    {"Total Revenue", "Gross Profit", "Selling General Administrative",
     "SellingGeneralAdministrative", "Research Development"}
FcfColumns == {"Operating Cash Flow", "Capital Expenditure"}

\* The cash-flow statement has the periods of the income statement or is one
\* period ahead of it.
CashflowShapes == {"same", "ahead"}

CyberSnapshot(ic, cc, shape, n, d) ==
    [income |-> Table(ic, 1..n, d), cashflow |-> Table(cc, BalanceKeys(shape, n), d)]

\* One cell of the two newest periods of either statement departs from the base
\* amounts.
NewestTwo(n) == {k \in 1..(n + 1) : k >= n - 1}
CyberDefects(ic, cc, shape, n) ==
    {d \in Defects(ic \cup cc, NewestTwo(n)) :
        \/ d = NoDefect
        \/ d.col \in ic /\ d.k \in 1..n
        \/ d.col \in cc /\ d.k \in BalanceKeys(shape, n)}

\* TEN_K_URLS as shipped, or with a filing registered for one symbol.
TenKUrlSets == {TEN_K_URLS, {"CRWD"}}

\* get_rd_sga_from_10k_url(url): the request or the parsing raises, or each of
\* the two amounts is found or is None.
NotCalled == [kind |-> "not_called"]
ScraperOutcomes ==
    {Raise("HTTPError", "404 Client Error")}
    \cup {Return(r) : r \in [rd_val : {None, Amt(1)}, sga_val : {None, Amt(2)}]}

CyberInit ==
    /\ cyb \in [pc : {"start"}, symbol : Symbols, ten_k_urls : TenKUrlSets,
                data : {Idle}, scraped : {Idle}, out : {Idle}]
    /\ cagr = Idle /\ ext = Idle /\ batch = Idle /\ qrec = Idle /\ crec = Idle /\ dash = Idle /\ win = Idle /\ inv = Idle

\* compute_cyber_metrics(symbol): the statements are fetched, the scraper is
\* called when the fallback is entered, and the seven metrics are returned.
CallComputeCyberMetrics ==
    /\ cyb.pc = "start"
    /\ \E ic \in SUBSET CyberLineItems, cc \in SUBSET FcfColumns,
          shape \in CashflowShapes, n \in 0..MaxPeriods :
         \E d \in CyberDefects(ic, cc, shape, n) :
           \E data \in {CyberSnapshot(ic, cc, shape, n, d)} :
             \E scraped \in IF sec_fallback_invoked(cyb.symbol, cyb.ten_k_urls,
                                                    sga_eff(sort_index(data.income)),
                                                    rd_eff(sort_index(data.income)))
                            THEN ScraperOutcomes ELSE {NotCalled} :
               cyb' = [cyb EXCEPT !.pc = "done", !.data = data, !.scraped = scraped,
                                  !.out = compute_cyber_metrics(cyb.symbol, data,
                                                                cyb.ten_k_urls, scraped)]
    /\ UNCHANGED <<cagr, ext, batch, qrec, crec, dash, win, inv>>

\* The caller turns to the next symbol.
NextCyberSymbol ==
    /\ cyb.pc = "done"
    /\ \E sym \in Symbols :
           cyb' = [cyb EXCEPT !.pc = "start", !.symbol = sym, !.data = Idle,
                              !.scraped = Idle, !.out = Idle]
    /\ UNCHANGED <<cagr, ext, batch, qrec, crec, dash, win, inv>>

CyberNext == CallComputeCyberMetrics \/ NextCyberSymbol

SpecCyber == CyberInit /\ [][CyberNext]_vars

CyberDone == cyb.pc = "done"

\* A metric is a value or undefined.
ValueOrUndefined(x) == IsNum(x) \/ isnan(x)

FcfColumnMissing ==
    \/ "Operating Cash Flow" \notin cyb.data.cashflow.cols
    \/ "Capital Expenditure" \notin cyb.data.cashflow.cols

\* C13: compute_cyber_metrics returns for every snapshot all seven metrics, each
\* a value or undefined; when the Operating Cash Flow or the Capital Expenditure
\* column is missing fcf_margin and rule_of_40 are undefined; rule_of_40 is
\* defined exactly when arr_growth and fcf_margin both are, and is then
\* arr_growth * 100 + fcf_margin * 100.
C13_NeverHardFails ==
    CyberDone =>
        /\ DOMAIN cyb.out = CyberKeys
        /\ \A key \in CyberKeys : ValueOrUndefined(cyb.out[key])
        /\ FcfColumnMissing => isnan(cyb.out.fcf_margin) /\ isnan(cyb.out.rule_of_40)
        /\ IsNum(cyb.out.rule_of_40)
               <=> IsNum(cyb.out.arr_growth) /\ IsNum(cyb.out.fcf_margin)
        /\ IsNum(cyb.out.rule_of_40)
               => cyb.out.rule_of_40.v = cyb.out.arr_growth.v + cyb.out.fcf_margin.v

\* C13 witness: a snapshot without the Operating Cash Flow column whose growth
\* is defined has been extracted and its rule_of_40 is undefined.
C13_Witness ==
    /\ CyberDone
    /\ "Operating Cash Flow" \notin cyb.data.cashflow.cols
    /\ "Capital Expenditure" \in cyb.data.cashflow.cols
    /\ IsNum(cyb.out.arr_growth)
    /\ isnan(cyb.out.fcf_margin)
    /\ isnan(cyb.out.rule_of_40)

\* The period keys at which Operating Cash Flow, Capital Expenditure and Total
\* Revenue are all present.
AllThreePresent(income, cashflow) ==
    {k \in Range(income.idx) \cap Range(cashflow.idx) :
        /\ cashflow.cell["Operating Cash Flow"][k] # NaN
        /\ cashflow.cell["Capital Expenditure"][k] # NaN
        /\ income.cell["Total Revenue"][k] # NaN}

\* fcf_margin as stated: (OCF + Capex) / Revenue at the single latest period
\* where all three are present.
Stated_fcf_margin_at(income, cashflow, k) ==
    IF income.cell["Total Revenue"][k].v = 0 THEN NaN
    ELSE ToNum(Rat(cashflow.cell["Operating Cash Flow"][k].v
                       + cashflow.cell["Capital Expenditure"][k].v,
                   income.cell["Total Revenue"][k].v))

Stated_fcf_margin(income, cashflow) ==
    IF /\ "Operating Cash Flow" \in cashflow.cols
       /\ "Capital Expenditure" \in cashflow.cols
       /\ "Total Revenue" \in income.cols
       /\ AllThreePresent(income, cashflow) # {}
    THEN Stated_fcf_margin_at(income, cashflow,
                              CHOOSE k \in AllThreePresent(income, cashflow) :
                                  \A j \in AllThreePresent(income, cashflow) : k >= j)
    ELSE NaN

\* C14: fcf_margin is (OCF + Capex) / Revenue with the three values taken from
\* one single period, the latest at which all three are present, also when the
\* most recent period is missing one of the three.
C14_FcfMarginFromOnePeriod ==
    CyberDone /\ Range(cyb.data.income.idx) = Range(cyb.data.cashflow.idx)
        => cyb.out.fcf_margin = Stated_fcf_margin(cyb.data.income, cyb.data.cashflow)

\* The frame df with the column old under the name new.
renamed(df, old, new) ==
    [df EXCEPT !.cols = (df.cols \ {old}) \cup {new},
               !.cell = [c \in (df.cols \ {old}) \cup {new} |->
                           IF c = new THEN df.cell[old] ELSE df.cell[c]]]

\* The frame df without the column col.
without(df, col) ==
    [df EXCEPT !.cols = df.cols \ {col},
               !.cell = [c \in df.cols \ {col} |-> df.cell[c]]]

\* sga_eff of the current call had the income statement been income.
SgaEffOn(income) ==
    compute_cyber_metrics(cyb.symbol, [cyb.data EXCEPT !.income = income],
                          cyb.ten_k_urls, cyb.scraped).sga_eff

OnlySecondSgaName ==
    /\ "SellingGeneralAdministrative" \in cyb.data.income.cols
    /\ "Selling General Administrative" \notin cyb.data.income.cols

BothSgaNames ==
    /\ "SellingGeneralAdministrative" \in cyb.data.income.cols
    /\ "Selling General Administrative" \in cyb.data.income.cols

\* C15: a snapshot naming the SG&A item "SellingGeneralAdministrative" yields the
\* sga_eff of the snapshot that differs only in naming it "Selling General
\* Administrative"; with both names present the first of the alias list is used.
C15_SgaAliasResolution ==
    CyberDone =>
        /\ OnlySecondSgaName =>
               cyb.out.sga_eff = SgaEffOn(renamed(cyb.data.income,
                                                  "SellingGeneralAdministrative",
                                                  "Selling General Administrative"))
        /\ BothSgaNames =>
               cyb.out.sga_eff = SgaEffOn(without(cyb.data.income,
                                                  "SellingGeneralAdministrative"))

\* C15 witness: a snapshot with the SG&A item under the second name only has
\* been extracted and its sga_eff is defined.
C15_Witness ==
    /\ CyberDone
    /\ OnlySecondSgaName
    /\ IsNum(cyb.out.sga_eff)

----------------------------------------------------------------------------
(* Alias variance in the universal extractor *)

\* The result of the current call had a line item carried another accepted name.
QualityMetricsRenamed(statement, old, new) ==
    compute_quality_metrics(ext.symbol,
                            [ext.data EXCEPT ![statement] =
                                 renamed(ext.data[statement], old, new)])

\* C16: the universal extractor resolves every concept through an ordered list
\* of accepted aliases: a snapshot that names Total Liabilities "Total
\* Liabilities" instead of "Total Liab", or Net Income "netIncome" instead of
\* "Net Income", yields the metrics of the snapshot it otherwise equals.
C16_AliasesYieldIdenticalMetrics ==
    ExtractDone =>
        /\ "Total Liab" \in ext.data.balance.cols =>
               QualityMetricsRenamed("balance", "Total Liab", "Total Liabilities")
                   = ext.out
        /\ "Net Income" \in ext.data.income.cols =>
               QualityMetricsRenamed("income", "Net Income", "netIncome") = ext.out

----------------------------------------------------------------------------
(* Dashboard: dashboard_app.py, add_valuation_signals and main *)

\* The frame read from data/latest_scores.csv: cols the valuation columns the
\* file has, rows the companies in file order, a valuation cell being Num(v) or
\* NaN where the file has no value. Ranks and scores are exact fractions.
RatLess(x, y) == x.n * y.d < y.n * x.d

ValuationColumns == {"ps", "pe", "fcf_yield"}

\* df[col]
values_of(df, col) == [i \in 1..Len(df.rows) |-> df.rows[i][col]]

\* Series.rank(pct=True) at row i: the average rank of the ties among the
\* entries that are not NaN, over their count; NaN for NaN.
rank_pct_min_ties(values, i) ==
    IF values[i] = NaN THEN NaN
    ELSE Rat(Cardinality({j \in 1..Len(values) :
                             values[j] # NaN /\ values[j].v < values[i].v}) + 1,
             Cardinality({j \in 1..Len(values) : values[j] # NaN}))

rank_pct(values, i) ==
    IF values[i] = NaN THEN NaN
    ELSE Rat(2 * Cardinality({j \in 1..Len(values) :
                                 values[j] # NaN /\ values[j].v < values[i].v})
               + Cardinality({j \in 1..Len(values) :
                                 values[j] # NaN /\ values[j].v = values[i].v})
               + 1,
             2 * Cardinality({j \in 1..Len(values) : values[j] # NaN}))

\* 1 - x
one_minus(x) == IF x = NaN THEN NaN ELSE RatSub(Rat(1, 1), x)

\* x.fillna(0.5)
fillna_half(x) == IF x = NaN THEN Rat(1, 2) ELSE x

\* Rank PS (lower PS = cheaper)
ps_rank(df, i) ==
    IF "ps" \in df.cols THEN fillna_half(one_minus(rank_pct(values_of(df, "ps"), i)))
    ELSE Rat(1, 2)

\* Rank PE (lower PE = cheaper)
pe_rank(df, i) ==
    IF "pe" \in df.cols THEN fillna_half(one_minus(rank_pct(values_of(df, "pe"), i)))
    ELSE Rat(1, 2)

\* Rank FCF yield (higher = cheaper)
fcf_rank(df, i) ==
    IF "fcf_yield" \in df.cols THEN fillna_half(rank_pct(values_of(df, "fcf_yield"), i))
    ELSE Rat(1, 2)

\* The three rank columns.
ranks(df) ==
    [i \in 1..Len(df.rows) |->
        [ps_rank |-> ps_rank(df, i), pe_rank |-> pe_rank(df, i),
         fcf_rank |-> fcf_rank(df, i)]]

\* Blended score: the row mean of the three ranks.
valuation_score(rk) ==
    RatMul(RatAdd(RatAdd(rk.ps_rank, rk.pe_rank), rk.fcf_rank), Rat(1, 3))

\* The fractions of xs in ascending order.
RECURSIVE sorted_values(_)
sorted_values(xs) ==
    IF xs = <<>> THEN <<>>
    ELSE LET i == CHOOSE k \in 1..Len(xs) : \A j \in 1..Len(xs) : ~RatLess(xs[j], xs[k])
         IN  <<xs[i]>> \o sorted_values(SubSeq(xs, 1, i - 1) \o SubSeq(xs, i + 1, Len(xs)))

\* Linear interpolation between the neighbours lo + 1 and lo + 2 of the sorted
\* values s at the position h = (n - 1) * q, counted from 0.
interpolate(s, h, lo) ==
    IF lo + 2 > Len(s) THEN s[Len(s)]
    ELSE RatAdd(s[lo + 1], RatMul(RatSub(h, Rat(lo, 1)), RatSub(s[lo + 2], s[lo + 1])))

\* Series.quantile(q) of a non-empty series without NaN, q = q100 / 100.
quantile(xs, q100) ==
    interpolate(sorted_values(xs), Rat((Len(xs) - 1) * q100, Hundred),
                ((Len(xs) - 1) * q100) \div Hundred)

\* The 66th and the 33rd percentile.
CheapQuantile == 66
ExpensiveQuantile == 33

\* bucket(v) with the Expensive test made first.
bucket_expensive_first(v, cheap_thr, exp_thr) ==
    IF ~RatLess(exp_thr, v) THEN "Expensive"
    ELSE IF ~RatLess(v, cheap_thr) THEN "Cheap"
    ELSE "Neutral"

\* bucket(v) with strict comparisons.
bucket_strict(v, cheap_thr, exp_thr) ==
    IF RatLess(cheap_thr, v) THEN "Cheap"
    ELSE IF RatLess(v, exp_thr) THEN "Expensive"
    ELSE "Neutral"

\* bucket(v)
bucket(v, cheap_thr, exp_thr) ==
    IF ~RatLess(v, cheap_thr) THEN "Cheap"
    ELSE IF ~RatLess(exp_thr, v) THEN "Expensive"
    ELSE "Neutral"

\* The frame with the five computed columns, rk being its rank columns, scores
\* its valuation_score column and the two cutoffs the quantiles of that.
with_signals(df, rk, scores, cheap_thr, exp_thr) ==
    [cols |-> df.cols,
     cheap_thr |-> cheap_thr,
     exp_thr |-> exp_thr,
     rows |-> [i \in 1..Len(df.rows) |->
                 [symbol |-> df.rows[i].symbol,
                  bucket |-> df.rows[i].bucket,
                  ps |-> df.rows[i].ps,
                  pe |-> df.rows[i].pe,
                  fcf_yield |-> df.rows[i].fcf_yield,
                  ps_rank |-> rk[i].ps_rank,
                  pe_rank |-> rk[i].pe_rank,
                  fcf_rank |-> rk[i].fcf_rank,
                  valuation_score |-> scores[i],
                  valuation_bucket |-> bucket(scores[i], cheap_thr, exp_thr)]]]

scored(df, rk, scores) ==
    with_signals(df, rk, scores, quantile(scores, CheapQuantile),
                 quantile(scores, ExpensiveQuantile))

ranked(df, rk) == scored(df, rk, [i \in 1..Len(rk) |-> valuation_score(rk[i])])

add_valuation_signals(df) == ranked(df, ranks(df))

\* The options of the "Select bucket" box and the rows each keeps.
BucketOptions == {"All", "Pure Play Cyber", "Cloud / Platform Leaders"}

KeepsRow(option, r) ==
    CASE option = "Pure Play Cyber" -> r.bucket = "pure_play"
      [] option = "Cloud / Platform Leaders" -> r.bucket = "cloud_leader"
      [] OTHER -> TRUE

filtered_by(df, option) ==
    [df EXCEPT !.rows = SelectSeq(df.rows, LAMBDA r : KeepsRow(option, r))]

\* One run of main with the file csv on disk and the box showing option: the
\* script stops when the file is missing or has no rows, else the signals are
\* added to the loaded cohort and the table shows the rows the option keeps.
shown(csv, option, df) ==
    [pc |-> "shown", csv |-> csv, selected |-> option, df |-> df,
     filtered |-> filtered_by(df, option)]

\* main with the bucket filter applied to the loaded file before the signals are
\* added.
main_filter_first(csv, option) ==
    IF csv = Absent \/ csv.rows = <<>>
    THEN [pc |-> "stopped", csv |-> csv, selected |-> option, df |-> Idle,
          filtered |-> Idle]
    ELSE IF filtered_by(csv, option).rows = <<>>
         THEN shown(csv, option, add_valuation_signals(csv))
         ELSE shown(csv, option, add_valuation_signals(filtered_by(csv, option)))

main(csv, option) ==
    IF csv = Absent \/ csv.rows = <<>>
    THEN [pc |-> "stopped", csv |-> csv, selected |-> option, df |-> Idle,
          filtered |-> Idle]
    ELSE shown(csv, option, add_valuation_signals(csv))

\* Bound on the number of companies of a cohort.
MaxCohort == 3

\* The multiples and yields a company may show, apart from no value.
ValuationLevels == {1, 2, 3}
ValuationCells == {NaN} \cup Nums(ValuationLevels)

\* The companies of the file.
CohortSymbols == <<"CRWD", "MSFT", "PANW", "GOOGL">>

bucket_of(symbol) ==
    IF symbol \in Range(PURE_PLAY_CYBER) THEN "pure_play" ELSE "cloud_leader"

\* The valuation cells of one company, numbered.
CellAt(code) == IF code = 0 THEN NaN ELSE Num(code)
Levels == Cardinality(ValuationCells)
RowAt(i, code) ==
    [symbol |-> CohortSymbols[i], bucket |-> bucket_of(CohortSymbols[i]),
     ps |-> CellAt(code \div (Levels * Levels)),
     pe |-> CellAt((code \div Levels) % Levels),
     fcf_yield |-> CellAt(code % Levels)]

\* The numbers of the valuation cells of a cohort of n companies.
MaxCode == Levels * Levels * Levels - 1

\* Only the order of the values of a column matters to its ranks: the levels a
\* column shows are consecutive from 1.
LevelsShown(rows, col) == {rows[i][col].v : i \in {j \in 1..Len(rows) : rows[j][col] # NaN}}
IsDense(rows) ==
    \A col \in ValuationColumns :
        \A v \in LevelsShown(rows, col) : v = 1 \/ (v - 1) \in LevelsShown(rows, col)

CohortOf(n, codes) == [i \in 1..n |-> RowAt(i, codes[i])]

\* A file lacks the valuation columns the export did not write.
HasOnly(rows, cols) ==
    \A i \in 1..Len(rows) : \A col \in ValuationColumns \ cols : rows[i][col] = NaN

started(csv) ==
    [pc |-> "start", csv |-> csv, selected |-> "All", df |-> Idle, filtered |-> Idle]

\* data/latest_scores.csv holds nothing, the header alone, or a cohort of up to
\* MaxCohort companies.
DashInit ==
    /\ \/ dash = started(Absent)
       \/ \E n \in 0..MaxCohort :
            \E codes \in [1..n -> 0..MaxCode] :
              /\ IsDense(CohortOf(n, codes))
              /\ \E cols \in SUBSET ValuationColumns :
                    /\ HasOnly(CohortOf(n, codes), cols)
                    /\ dash = started([cols |-> cols, rows |-> CohortOf(n, codes)])
    /\ cagr = Idle /\ ext = Idle /\ batch = Idle /\ qrec = Idle /\ crec = Idle
    /\ cyb = Idle /\ win = Idle /\ inv = Idle

\* The first run of the script.
RunMain ==
    /\ dash.pc = "start"
    /\ dash' = main(dash.csv, dash.selected)
    /\ UNCHANGED <<cagr, ext, batch, qrec, crec, cyb, win, inv>>

\* The user picks another option of the box and the script runs again.
SelectBucket ==
    /\ dash.pc = "shown"
    /\ \E option \in BucketOptions \ {dash.selected} :
           dash' = main(dash.csv, option)
    /\ UNCHANGED <<cagr, ext, batch, qrec, crec, cyb, win, inv>>

DashNext == RunMain \/ SelectBucket

SpecDash == DashInit /\ [][DashNext]_vars

DashShown == dash.pc = "shown"

RECURSIVE SumOf(_)
SumOf(S) == IF S = {} THEN 0 ELSE LET k == CHOOSE x \in S : TRUE IN k + SumOf(S \ {k})

\* The cohort members that have a value of the field.
Having(rows, field) == {j \in 1..Len(rows) : rows[j][field] # NaN}

\* The positions, counted from 1 in ascending order of the field among the
\* members having it, that company i shares with the companies tied with it.
TiePositions(rows, field, i) ==
    LET below == Cardinality({j \in Having(rows, field) :
                                 rows[j][field].v < rows[i][field].v})
        tied == Cardinality({j \in Having(rows, field) :
                                rows[j][field].v = rows[i][field].v})
    IN  (below + 1)..(below + tied)

\* The percentile of company i as stated: the average of the tied positions
\* over the number of members having the field.
Stated_percentile(rows, field, i) ==
    Rat(SumOf(TiePositions(rows, field, i)),
        Cardinality(TiePositions(rows, field, i)) * Cardinality(Having(rows, field)))

Stated_rank(rows, field, i, inverted) ==
    IF rows[i][field] = NaN THEN Rat(1, 2)
    ELSE IF inverted THEN RatSub(Rat(1, 1), Stated_percentile(rows, field, i))
    ELSE Stated_percentile(rows, field, i)

\* Company i has a strictly lower value of the field than company j.
StrictlyLower(rows, field, i, j) ==
    /\ rows[i][field] # NaN /\ rows[j][field] # NaN
    /\ rows[i][field].v < rows[j][field].v

\* C17: add_valuation_signals gives each company, for each of ps, pe and
\* fcf_yield, the percentile rank among the members having the value, ties
\* sharing the averaged percentile; ps_rank and pe_rank are 1 - percentile, so a
\* strictly lower value has a strictly higher rank, fcf_rank is the percentile,
\* so a strictly higher yield has a strictly higher rank; a missing value has
\* rank exactly 0.5; valuation_score is the mean of the three ranks.
C17_ValuationRanks ==
    DashShown =>
        \A i \in 1..Len(dash.df.rows) :
            /\ dash.df.rows[i].ps_rank = Stated_rank(dash.df.rows, "ps", i, TRUE)
            /\ dash.df.rows[i].pe_rank = Stated_rank(dash.df.rows, "pe", i, TRUE)
            /\ dash.df.rows[i].fcf_rank = Stated_rank(dash.df.rows, "fcf_yield", i, FALSE)
            /\ RatMul(Rat(3, 1), dash.df.rows[i].valuation_score)
                   = RatAdd(RatAdd(dash.df.rows[i].ps_rank, dash.df.rows[i].pe_rank),
                            dash.df.rows[i].fcf_rank)
            /\ \A j \in 1..Len(dash.df.rows) :
                   /\ StrictlyLower(dash.df.rows, "ps", i, j)
                          => RatLess(dash.df.rows[j].ps_rank, dash.df.rows[i].ps_rank)
                   /\ StrictlyLower(dash.df.rows, "pe", i, j)
                          => RatLess(dash.df.rows[j].pe_rank, dash.df.rows[i].pe_rank)
                   /\ StrictlyLower(dash.df.rows, "fcf_yield", i, j)
                          => RatLess(dash.df.rows[i].fcf_rank, dash.df.rows[j].fcf_rank)

\* C17 witness: the signals of a cohort of three are shown in which two
\* companies tie on ps below the third and one company has no pe.
C17_Witness ==
    /\ DashShown
    /\ Len(dash.df.rows) = 3
    /\ \E i, j, k \in 1..3 :
           /\ i # j
           /\ dash.df.rows[i].ps # NaN
           /\ dash.df.rows[i].ps = dash.df.rows[j].ps
           /\ StrictlyLower(dash.df.rows, "ps", i, k)
           /\ dash.df.rows[k].pe = NaN
           /\ dash.df.rows[k].pe_rank = Rat(1, 2)
           /\ dash.df.rows[i].ps_rank = Rat(1, 2)

\* The q100-th percentile as stated: the two neighbours of the position
\* (n - 1) * q100 / 100 in the ascending scores, weighted by its remainder.
Stated_percentile_cutoff(s, q100) ==
    LET lo == ((Len(s) - 1) * q100) \div Hundred
        rem == ((Len(s) - 1) * q100) % Hundred
    IN  IF rem = 0 THEN s[lo + 1]
        ELSE RatAdd(RatMul(Rat(Hundred - rem, Hundred), s[lo + 1]),
                    RatMul(Rat(rem, Hundred), s[lo + 2]))

ShownScores == [i \in 1..Len(dash.df.rows) |-> dash.df.rows[i].valuation_score]

Stated_bucket(v, p66, p33) ==
    IF ~RatLess(v, p66) THEN "Cheap"
    ELSE IF ~RatLess(p33, v) THEN "Expensive"
    ELSE "Neutral"

AllDefined(rows) ==
    \A i \in 1..Len(rows) : rows[i].ps # NaN /\ rows[i].pe # NaN /\ rows[i].fcf_yield # NaN

\* Company i has the strictly lowest ps and pe and the strictly highest yield.
Cheapest(rows, i) ==
    \A j \in 1..Len(rows) : j # i =>
        /\ rows[i].ps.v < rows[j].ps.v
        /\ rows[i].pe.v < rows[j].pe.v
        /\ rows[i].fcf_yield.v > rows[j].fcf_yield.v

\* Company i has the strictly highest ps and pe and the strictly lowest yield.
Dearest(rows, i) ==
    \A j \in 1..Len(rows) : j # i =>
        /\ rows[i].ps.v > rows[j].ps.v
        /\ rows[i].pe.v > rows[j].pe.v
        /\ rows[i].fcf_yield.v < rows[j].fcf_yield.v

\* C18: the buckets use the cohort's 66th and 33rd percentile of
\* valuation_score: a score >= p66 is Cheap, else a score <= p33 is Expensive,
\* else Neutral; in a cohort of at least two companies with every field defined
\* the strictly cheapest company is Cheap and the strictly dearest Expensive.
C18_BucketsByPercentiles ==
    DashShown =>
        /\ dash.df.cheap_thr = Stated_percentile_cutoff(sorted_values(ShownScores), 66)
        /\ dash.df.exp_thr = Stated_percentile_cutoff(sorted_values(ShownScores), 33)
        /\ \A i \in 1..Len(dash.df.rows) :
               dash.df.rows[i].valuation_bucket
                   = Stated_bucket(dash.df.rows[i].valuation_score,
                                   dash.df.cheap_thr, dash.df.exp_thr)
        /\ Len(dash.df.rows) >= 2 /\ AllDefined(dash.df.rows) =>
               \A i \in 1..Len(dash.df.rows) :
                   /\ Cheapest(dash.df.rows, i)
                          => dash.df.rows[i].valuation_bucket = "Cheap"
                   /\ Dearest(dash.df.rows, i)
                          => dash.df.rows[i].valuation_bucket = "Expensive"

\* C18 witness: the cohort of three with ps and pe rising and the yield falling
\* from the first company to the third is shown as Cheap, Neutral, Expensive.
C18_Witness ==
    /\ DashShown
    /\ Len(dash.df.rows) = 3
    /\ AllDefined(dash.df.rows)
    /\ Cheapest(dash.df.rows, 1)
    /\ Dearest(dash.df.rows, 3)
    /\ dash.df.rows[1].valuation_bucket = "Cheap"
    /\ dash.df.rows[2].valuation_bucket = "Neutral"
    /\ dash.df.rows[3].valuation_bucket = "Expensive"

----------------------------------------------------------------------------
(* The filing-scrape fallback *)

\* The fallback was entered in the current call and the scraper called.
FallbackInvoked == CyberDone /\ cyb.scraped # NotCalled

\* The metrics of the current call from the statements alone.
BeforeFallback == compute_cyber_metrics(cyb.symbol, cyb.data, TEN_K_URLS, NoFiling)

ScraperRaised == cyb.scraped.kind = "raise"
ScraperFoundNo(val) == cyb.scraped.kind = "return" /\ cyb.scraped.value[val] = None

\* C19: when the fallback is invoked and the scraper raises or returns no value
\* for a metric, compute_cyber_metrics still returns its seven metrics, every
\* metric other than sga_eff and rd_eff is what the statements gave, and each
\* of sga_eff and rd_eff that was undefined before the fallback stays undefined.
C19_ScraperFailureIsContained ==
    FallbackInvoked =>
        /\ DOMAIN cyb.out = CyberKeys
        /\ \A key \in CyberKeys \ {"sga_eff", "rd_eff"} :
               cyb.out[key] = BeforeFallback[key]
        /\ ScraperRaised =>
               /\ cyb.out.sga_eff = BeforeFallback.sga_eff
               /\ cyb.out.rd_eff = BeforeFallback.rd_eff
        /\ ScraperFoundNo("sga_val") => cyb.out.sga_eff = BeforeFallback.sga_eff
        /\ ScraperFoundNo("rd_val") => cyb.out.rd_eff = BeforeFallback.rd_eff

\* C19 witness: the scraper raised in a call whose sga_eff was undefined and
\* whose growth was defined; the call returned with sga_eff undefined.
C19_Witness ==
    /\ FallbackInvoked
    /\ ScraperRaised
    /\ isnan(BeforeFallback.sga_eff)
    /\ isnan(cyb.out.sga_eff)
    /\ IsNum(cyb.out.arr_growth)

----------------------------------------------------------------------------
(* The exported record *)

\* The fields of the record under which a universal metric may be looked for:
\* its own name, or the name the record has for the same concept.
ExportedAs(key) ==
    CASE key = "roic_5y_avg" -> {"roic_5y_avg", "roic"}
      [] key = "rev_cagr_5y" -> {"rev_cagr_5y", "revenue_cagr"}
      [] OTHER -> {key}

\* The universal metrics of the company of the record r in the current run.
UniversalMetricsOf(r) ==
    compute_quality_metrics(r.symbol, get_yahoo_financials(batch.yahoo, r.symbol)).value

CyberMetricsOf(r) ==
    compute_cyber_metrics(r.symbol, get_yahoo_financials(batch.yahoo, r.symbol),
                          TEN_K_URLS, NoFiling)

Carries(r, key, v) == \E f \in ExportedAs(key) \cap DOMAIN r : r[f] = v

\* C20: the record build_row produces carries every universal metric the
\* extractor computed as defined (roic_5y_avg, op_margin_std_5y, rev_cagr_5y,
\* eps_cagr_5y, debt_to_equity), every cyber metric and the four scores.
C20_RowCarriesEveryMetric ==
    batch.prog = "export_latest" =>
        \A i \in 1..Len(batch.rows) :
            /\ \A key \in QualityKeys :
                   IsNum(UniversalMetricsOf(batch.rows[i])[key])
                       => Carries(batch.rows[i], key, UniversalMetricsOf(batch.rows[i])[key])
            /\ \A key \in CyberKeys :
                   batch.rows[i][key] = CyberMetricsOf(batch.rows[i])[key]
            /\ {"quality_score", "growth_score", "profitability_score", "balanced_score"}
                   \subseteq DOMAIN batch.rows[i]

----------------------------------------------------------------------------
(* The growth metrics over long statement histories *)

\* Bound on the number of periods of a long history.
MaxSeries == 7

EpsColumns == {"Diluted EPS", "Basic EPS"}

\* A history of n periods of a company that breaks even, with the required
\* columns and any of the EPS columns; no balance sheet and no cash-flow
\* statement.
BreakEven(income) ==
    [income EXCEPT !.cell["Operating Income"] = [k \in DOMAIN @ |-> Amt(0)]]

LongSnapshot(eps, n, d) ==
    [income |-> BreakEven(Table({"Total Revenue", "Operating Income"} \cup eps, 1..n, d)),
     balance |-> Table({}, {}, NoDefect),
     cashflow |-> Table({}, {}, NoDefect)]

WindowInit ==
    /\ win \in [pc : {"start"}, symbol : Symbols, data : {Idle}, quality : {Idle},
                cyber : {Idle}]
    /\ cagr = Idle /\ ext = Idle /\ batch = Idle /\ qrec = Idle /\ crec = Idle
    /\ cyb = Idle /\ dash = Idle /\ inv = Idle

\* compute_quality_metrics(symbol) and compute_cyber_metrics(symbol) on the same
\* history.
CallBothExtractors ==
    /\ win.pc = "start"
    /\ \E eps \in SUBSET EpsColumns, n \in 0..MaxSeries :
         \E d \in Defects({"Total Revenue"} \cup eps, 1..n) :
           \E data \in {LongSnapshot(eps, n, d)} :
             win' = [win EXCEPT !.pc = "done", !.data = data,
                                !.quality = compute_quality_metrics(win.symbol, data),
                                !.cyber = compute_cyber_metrics(win.symbol, data,
                                                                TEN_K_URLS, NoFiling)]
    /\ UNCHANGED <<cagr, ext, batch, qrec, crec, cyb, dash, inv>>

\* The caller turns to the next symbol.
NextWindowSymbol ==
    /\ win.pc = "done"
    /\ \E sym \in Symbols :
           win' = [pc |-> "start", symbol |-> sym, data |-> Idle, quality |-> Idle,
                   cyber |-> Idle]
    /\ UNCHANGED <<cagr, ext, batch, qrec, crec, cyb, dash, inv>>

WindowNext == CallBothExtractors \/ NextWindowSymbol

SpecWindow == WindowInit /\ [][WindowNext]_vars

WindowDone == win.pc = "done"

\* The window of the growth metrics as stated: at most 6 periods.
StatedWindow == 6

\* The periods of a line item that carry a value, oldest first.
Available(income, col) == dropna(column(sort_index(income), col))

\* The growth of a series as stated: over its last StatedWindow periods, from
\* the earliest value of the window to the latest, with periods = size - 1;
\* undefined with fewer than 2 periods.
Stated_window_cagr_of(xs, from) ==
    safe_cagr(xs[from].v.v, xs[Len(xs)].v.v, Len(xs) - from).value

Stated_window_cagr(xs) ==
    IF Len(xs) < 2 THEN NaN
    ELSE Stated_window_cagr_of(xs, IF Len(xs) > StatedWindow
                                   THEN Len(xs) - StatedWindow + 1 ELSE 1)

\* C21: rev_cagr_5y, eps_cagr_5y and arr_growth are computed over a tail window
\* of at most 6 periods of their series, from the earliest to the latest value
\* of the window with periods = size of the window - 1, and are undefined when
\* fewer than 2 periods are available.
C21_CagrOverTailWindow ==
    WindowDone =>
        /\ win.quality.kind = "return"
        /\ win.quality.value.rev_cagr_5y
               = Stated_window_cagr(Available(win.data.income, "Total Revenue"))
        /\ win.cyber.arr_growth
               = Stated_window_cagr(Available(win.data.income, "Total Revenue"))
        /\ win.quality.value.eps_cagr_5y
               = IF eps_col(win.data.income) = "None" THEN NaN
                 ELSE Stated_window_cagr(Available(win.data.income,
                                                   eps_col(win.data.income)))

\* C21 witness: a history with more than 6 revenue periods was extracted, and
\* its growth is defined and is not the growth over the whole history.
C21_Witness ==
    /\ WindowDone
    /\ Len(Available(win.data.income, "Total Revenue")) > StatedWindow
    /\ IsNum(win.quality.value.rev_cagr_5y)
    /\ win.quality.value.rev_cagr_5y
           # rev_cagr_whole_series(sort_index(win.data.income)).value
    /\ win.cyber.arr_growth = win.quality.value.rev_cagr_5y

----------------------------------------------------------------------------
(* The growth rates outside the extractors *)

\* The reports of the companies that run_all has printed.
PrintedReports ==
    {batch.stdout[i] : i \in {j \in DOMAIN batch.stdout : "symbol" \in DOMAIN batch.stdout[j]}}

\* The free cash flow growth as the safe CAGR states it: from the earliest value
\* of the last 6 periods to the latest, periods = size - 1.
Stated_fcf_cagr(cashflow_df) ==
    IF "Free Cash Flow" \in cashflow_df.cols
    THEN Stated_window_cagr(Available(cashflow_df, "Free Cash Flow"))
    ELSE NaN

\* C22: the free cash flow growth that analyze_company prints is the safe CAGR of
\* the company's free cash flow, from the earliest value to the latest value,
\* undefined under the same guards.
C22_FcfGrowthIsSafeCagr ==
    batch.prog = "run_all" =>
        \A rep \in PrintedReports :
            rep.fcf_growth
                = fmt(Stated_fcf_cagr(get_yahoo_financials(batch.yahoo, rep.symbol).cashflow),
                      TRUE, 2)

----------------------------------------------------------------------------
(* One call of build_row or analyze_company and its requests to Yahoo *)

\* What Yahoo returns to one request: the complete statements, the empty frames
\* of a request that found nothing, or statements whose cash flow is missing.
Responses == {"complete", "unknown_symbol", "no_cashflow"}

\* The most requests for the statements that one call makes.
MaxRequests == 4

\* The requests a call made, given the responses it would get: the first is
\* compute_quality_metrics', whose exception ends the call; then come
\* compute_cyber_metrics' and get_basic_valuation's, and in analyze_company the
\* one for the net margin and the FCF growth.
Requested(yahoo, out, n) == SubSeq(yahoo, 1, IF out.kind = "raise" THEN 1 ELSE n)

FetchInit ==
    /\ inv \in [pc : {"start"}, symbol : Symbols, info : Infos,
                yahoo : [1..MaxRequests -> {Statements(r) : r \in Responses}],
                fetched : {<<>>}, out : {Idle}]
    /\ cagr = Idle /\ ext = Idle /\ batch = Idle /\ qrec = Idle /\ crec = Idle
    /\ cyb = Idle /\ dash = Idle /\ win = Idle

\* build_row(symbol, "pure_play")
CallBuildRow ==
    /\ inv.pc = "start"
    /\ \E out \in {build_row(inv.symbol, "pure_play", Timestamp(0), inv.yahoo, inv.info)} :
         inv' = [inv EXCEPT !.pc = "build_row", !.out = out,
                            !.fetched = Requested(inv.yahoo, out, 3)]
    /\ UNCHANGED <<cagr, ext, batch, qrec, crec, cyb, dash, win>>

\* analyze_company(symbol)
CallAnalyzeCompany ==
    /\ inv.pc = "start"
    /\ \E out \in {analyze_company(inv.symbol, inv.yahoo, inv.info)} :
         inv' = [inv EXCEPT !.pc = "analyze_company", !.out = out,
                            !.fetched = Requested(inv.yahoo, out, 4)]
    /\ UNCHANGED <<cagr, ext, batch, qrec, crec, cyb, dash, win>>

FetchNext == CallBuildRow \/ CallAnalyzeCompany

SpecFetch == FetchInit /\ [][FetchNext]_vars

\* C23: within one call of build_row or analyze_company the statements are
\* fetched exactly once, and the record or report is derived from that one
\* snapshot.
C23_SnapshotFetchedOnce ==
    inv.pc \in {"build_row", "analyze_company"} =>
        /\ Len(inv.fetched) = 1
        /\ inv.out = IF inv.pc = "build_row"
                     THEN build_row(inv.symbol, "pure_play", Timestamp(0),
                                    Unchanging(inv.fetched[1]), inv.info)
                     ELSE analyze_company(inv.symbol, Unchanging(inv.fetched[1]), inv.info)

----------------------------------------------------------------------------
(* The bucket filter of the dashboard *)

\* The rows of frame df that the option keeps.
Kept(df, option) == SelectSeq(df.rows, LAMBDA r : KeepsRow(option, r))

\* Every row of rows has, in the frame df, the valuation score and bucket of its
\* company.
SameSignals(rows, df) ==
    \A r \in Range(rows) :
        \A q \in Range(df.rows) :
            q.symbol = r.symbol =>
                /\ q.valuation_score = r.valuation_score
                /\ q.valuation_bucket = r.valuation_bucket

\* C24: each run of the dashboard computes the valuation signals over the
\* complete loaded cohort, before the bucket filter; the filter only removes
\* rows, and a company that remains after another option is selected keeps its
\* valuation_score and valuation_bucket.
C24_FilterOnlyRemovesRows ==
    [][dash'.pc = "shown" =>
          /\ Len(dash'.df.rows) = Len(dash'.csv.rows)
          /\ \A i \in 1..Len(dash'.df.rows) :
                 dash'.df.rows[i].symbol = dash'.csv.rows[i].symbol
          /\ dash'.filtered.rows = Kept(dash'.df, dash'.selected)
          /\ dash.pc = "shown" => SameSignals(dash'.filtered.rows, dash.df)]_vars

\* C24 witness: an option other than All is selected and removes rows, and a
\* company that remains alone is not Cheap, as it would be in a cohort of its own.
C24_Witness ==
    /\ DashShown
    /\ dash.selected # "All"
    /\ Len(dash.filtered.rows) = 1
    /\ Len(dash.df.rows) > 1
    /\ dash.filtered.rows[1].valuation_bucket # "Cheap"

----------------------------------------------------------------------------
(* When the filing scraper is called *)

\* A filing URL is registered for the symbol of the current call.
UrlRegistered == cyb.symbol \in cyb.ten_k_urls

\* C25: get_rd_sga_from_10k_url is called exactly when a filing URL is
\* registered for the symbol and at least one of sga_eff and rd_eff is undefined
\* after the computation from the statements; and a ratio the statements
\* defined is returned as it was, whatever the scraper gave.
C25_ScraperOnlyWhenNeeded ==
    CyberDone =>
        /\ FallbackInvoked <=> (UrlRegistered /\ (isnan(BeforeFallback.sga_eff)
                                                  \/ isnan(BeforeFallback.rd_eff)))
        /\ ~isnan(BeforeFallback.sga_eff) => cyb.out.sga_eff = BeforeFallback.sga_eff
        /\ ~isnan(BeforeFallback.rd_eff) => cyb.out.rd_eff = BeforeFallback.rd_eff

\* C25 witness: the scraper was called for a registered symbol whose sga_eff the
\* statements defined and whose rd_eff they did not; it found both amounts, the
\* rd_eff was filled in and the sga_eff was kept.
C25_Witness ==
    /\ FallbackInvoked
    /\ UrlRegistered
    /\ IsNum(BeforeFallback.sga_eff)
    /\ isnan(BeforeFallback.rd_eff)
    /\ cyb.scraped.kind = "return"
    /\ cyb.scraped.value.sga_val # None
    /\ cyb.scraped.value.rd_val # None
    /\ cyb.out.sga_eff = BeforeFallback.sga_eff
    /\ IsNum(cyb.out.rd_eff)

----------------------------------------------------------------------------
(* The order of the bucket tests *)

\* Expensive before Neutral before Cheap.
BucketOrder(b) == CASE b = "Expensive" -> 1 [] b = "Neutral" -> 2 [] OTHER -> 3

\* Every company of the cohort has the same valuation_score.
OneScore(rows) == \A i, j \in 1..Len(rows) : rows[i].valuation_score = rows[j].valuation_score

\* C26: a company that passes the Cheap test is Cheap even when it also passes
\* the Expensive test; a company with a valuation_score at least that of
\* another is in a bucket at least as cheap; and in a cohort whose companies all
\* have the same valuation_score every company is Cheap.
C26_CheapTakesPrecedence ==
    DashShown =>
        /\ \A i \in 1..Len(dash.df.rows) :
               ~RatLess(dash.df.rows[i].valuation_score, dash.df.cheap_thr)
                   => dash.df.rows[i].valuation_bucket = "Cheap"
        /\ \A i, j \in 1..Len(dash.df.rows) :
               ~RatLess(dash.df.rows[j].valuation_score, dash.df.rows[i].valuation_score)
                   => BucketOrder(dash.df.rows[i].valuation_bucket)
                          <= BucketOrder(dash.df.rows[j].valuation_bucket)
        /\ OneScore(dash.df.rows) =>
               \A i \in 1..Len(dash.df.rows) : dash.df.rows[i].valuation_bucket = "Cheap"

\* C26 witness: two companies with the same defined multiples have the same
\* valuation_score, which passes the Cheap test and the Expensive test, and both
\* are Cheap.
C26_Witness ==
    /\ DashShown
    /\ Len(dash.df.rows) = 2
    /\ dash.df.rows[1].ps # NaN
    /\ OneScore(dash.df.rows)
    /\ ~RatLess(dash.df.exp_thr, dash.df.rows[1].valuation_score)
    /\ ~RatLess(dash.df.rows[1].valuation_score, dash.df.cheap_thr)
    /\ dash.df.rows[1].valuation_bucket = "Cheap"
    /\ dash.df.rows[2].valuation_bucket = "Cheap"

----------------------------------------------------------------------------
(* balanced_score as a plain sum *)

\* The tier points of the seven sub-tables of balanced_score.
SevenSubTables(m) ==
    <<b_r40_points(m.r40), b_arr_points(m.arr), b_fcf_points(m.fcf_m), b_gm_points(m.gm),
      b_sga_points(m.sga), b_rd_points(m.rd), b_gm_tr_points(m.gm_tr)>>

\* The most points of each sub-table, in the same order.
SubTableWeights == <<20, 15, 20, 15, 10, 10, 10>>

RECURSIVE SeqSum(_)
SeqSum(s) == IF s = <<>> THEN 0 ELSE Head(s) + SeqSum(Tail(s))

DefinedInteger(score) == IsNum(score) /\ score.v \in 0..100

\* C27: balanced_score is the plain sum of the tier points of its seven
\* sub-tables, each at most its weight, because the achievable totals of the
\* three components are always 35, 35 and 30 and the denominator always 100;
\* the three cyber scores are always defined integers; and a record with every
\* metric undefined scores 0 on all three.
C27_BalancedIsPlainSum ==
    CyberScored =>
        LET m == cyber_locals(crec.metrics)
        IN  /\ crec.out.balanced_score = Num(SeqSum(SevenSubTables(m)))
            /\ \A i \in 1..7 : SevenSubTables(m)[i] \in 0..SubTableWeights[i]
            /\ growth_component_max(m.r40, m.arr) = 35
            /\ prof_component_max(m.fcf_m, m.gm) = 35
            /\ eff_component_max(m.sga, m.rd, m.gm_tr) = 30
            /\ b_max = 100
            /\ DefinedInteger(crec.out.growth_score)
            /\ DefinedInteger(crec.out.profitability_score)
            /\ DefinedInteger(crec.out.balanced_score)
            /\ (\A k \in CyberKeys : ~IsNum(crec.metrics[k])) =>
                   /\ crec.out.growth_score = Num(0)
                   /\ crec.out.profitability_score = Num(0)
                   /\ crec.out.balanced_score = Num(0)

\* C27 witness: a record with rule_of_40 in its top tier and arr_growth
\* undefined was scored; its growth component gave the 20 points of rule_of_40,
\* not the 35 of the component, and balanced_score is the sum of the points.
C27_Witness ==
    /\ CyberScored
    /\ IsNum(crec.metrics.rule_of_40) /\ crec.metrics.rule_of_40.v >= 60
    /\ ~IsNum(crec.metrics.arr_growth)
    /\ growth_component(crec.metrics.rule_of_40, NaN) = 20
    /\ crec.out.balanced_score
           = Num(SeqSum(SevenSubTables(cyber_locals(crec.metrics))))
    /\ crec.out.balanced_score.v > 20

====
